---- MODULE Spec2Model ----
(*  A model of the kintone client of src/app.go: the timeout-bound executor  *)
(*  (App.do), the response classifier (parseResponse), the batch guard of    *)
(*  the bulk operations, the pagination loop of GetAllRecords and the         *)
(*  streaming relay of Download.                                              *)
EXTENDS Integers, Sequences, FiniteSets, TLC

VARIABLES
    \* ---- App.do: one invocation of the executor -------------------------
    Client,        \* app.Client: Nil, a client without / with CancelRequest
    Timeout,       \* app.Timeout in seconds
    callerPc,      \* position of the goroutine that called do
    netPc,         \* position of the goroutine running Client.Do
    netRes,        \* the (resp, err) pair Client.Do returned
    done,          \* the channel `done` (capacity 1), as a sequence
    timer,         \* the channel of time.After: "off", "armed", "fired"
    drainPc,       \* position of the detached goroutine of lines 150-155
    cancelCalled,  \* CancelRequest(req) was called
    bodyClosed,    \* resp.Body.Close() was called on the response of the latest invocation of do
    ret,           \* what do returned to its caller
    resultFirst,   \* the result was sent into done before the timer fired
    \* ---- parseResponse: one application of the classifier --------------
    prPc,          \* "call" before, "returned" after
    prResp,        \* the *http.Response handed to parseResponse
    prOut,         \* the (body, err) pair parseResponse returned
    prClosed,      \* resp.Body.Close() was called
    \* ---- the App and the requests it made ------------------------------
    Domain,        \* app.Domain
    User,          \* app.User
    Password,      \* app.Password
    token,         \* app.token
    requestsBuilt, \* requests http.NewRequest has built
    netRequests,   \* requests handed to app.do
    \* ---- Download ------------------------------------------------------
    dlPc,          \* "call" before Download returns, "returned" after
    dlResp,        \* the response do returned to Download
    dlRet,         \* what Download returned
    dlBodyClosed,  \* resp.Body.Close() was called
    stream,        \* the body of a 200 response as a byte stream
    srcPos,        \* bytes of the body the relay has read
    relayPc,       \* position of the relay goroutine (lines 330-338)
    chunk,         \* bytes of the pending pout.Write not yet read from pin
    readEr,        \* the error the last Read of the body returned (er)
    copyErr,       \* the error io.Copy returned
    pipe,          \* write end of the pipe: "open", "eof", "error"
    consumer,      \* the reader of FileData.Reader
    got,           \* bytes the consumer has read
    consumerSaw,   \* how the stream ended for the consumer
    \* ---- AddRecords, UpdateRecords, DeleteRecords ------------------------
    opName,        \* the bulk operation called
    nItems,        \* len(recs) / len(ids) of its argument
    opPc,          \* "call" before it returns, "returned" after
    opRet,         \* what it returned
    opOut,         \* what do gave the operation
    \* ---- GetAllRecords ---------------------------------------------------
    server,        \* how the service answers listing requests
    garPc,         \* "call", "loop", "returned"
    recs,          \* the records accumulated so far
    queries,       \* the query of every listing request sent, in order
    pages,         \* the pages decoded, in the order received
    lastOut,       \* what the latest page fetch ran into
    garRet,        \* what GetAllRecords returned
    \* ---- SetBasicAuth and the requests built through one App -------------
    basicAuth,     \* app.basicAuth, app.basicAuthUser, app.basicAuthPassword
    calls,         \* calls of newRequest so far
    firstCreds,    \* User + ":" + Password at the first call of newRequest
    lastCreds,     \* User + ":" + Password at the latest call
    lastReq,       \* the request the latest call built
    \* ---- Upload ----------------------------------------------------------
    upPc,          \* "call", "created" (temporary file made), "returned", "panicked"
    upFail,        \* the local step of Upload that failed, "none" if none did
    upOut,         \* what do gave Upload
    upRet,         \* what Upload returned
    tempFile,      \* the temporary file: "none", "exists", "removed"
    upData,        \* the data reader given to Upload: "bytes", "empty", "failing"
    \* ---- FieldInfo.UnmarshalJSON -----------------------------------------
    fiPc,          \* "call", "returned"
    payload,       \* the JSON text given to UnmarshalJSON: its syntax and,
                   \* for an object, the wire values of its attributes
    fi,            \* *fi, the FieldInfo UnmarshalJSON is called on
    fiErr,         \* UnmarshalJSON returned an error
    \* ---- two tasks making their first call through one App ----------------
    taskPc,        \* per task: "check", "set", "build", "done"
    sawEmpty,      \* per task: len(app.token) == 0 was true when it looked
    taskAuth,      \* per task: the X-Cybozu-Authorization value of its request
    tokenWrites,   \* assignments to app.token so far
    \* ---- GetRecord, step by step -----------------------------------------
    grPc,          \* "idle", "call", "do", "ReadAll", "returned"
    grOut,         \* the response whose body parseResponse read
    grRet          \* what GetRecord returned

doVars == <<Client, Timeout, callerPc, netPc, netRes, done, timer, drainPc,
            cancelCalled, bodyClosed, ret, resultFirst>>

prVars == <<prPc, prResp, prOut, prClosed>>

appVars == <<Domain, User, Password, token, requestsBuilt, netRequests, basicAuth>>

tokVars == <<calls, firstCreds, lastCreds, lastReq>>

upVars == <<upPc, upFail, upOut, upRet, tempFile, upData>>

fiVars == <<fiPc, payload, fi, fiErr>>

raceVars == <<taskPc, sawEmpty, taskAuth, tokenWrites>>

grVars == <<grPc, grOut, grRet>>

dlVars == <<dlPc, dlResp, dlRet, dlBodyClosed, stream, srcPos, relayPc, chunk,
            readEr, copyErr, pipe, consumer, got, consumerSaw>>

bulkVars == <<opName, nItems, opPc, opRet, opOut>>

garVars == <<server, garPc, recs, queries, pages, lastOut, garRet>>

\* The state of do but the position of its caller.
doButCaller == <<Client, Timeout, netPc, netRes, done, timer, drainPc,
                 cancelCalled, bodyClosed, ret, resultFirst>>

\* The state of do but the response body.
doButBody == <<Client, Timeout, callerPc, netPc, netRes, done, timer, drainPc,
               cancelCalled, ret, resultFirst>>

\* What the steps of one component leave alone: the other components.  The
\* operations run do, so their steps say themselves what they leave of it.
restDo == <<prVars, appVars, dlVars, bulkVars, garVars, tokVars,
          upVars, fiVars, raceVars, grVars>>
restPr == <<doVars, appVars, dlVars, bulkVars, garVars, tokVars,
          upVars, fiVars, raceVars, grVars>>
restDl == <<prVars, bulkVars, garVars, tokVars, upVars,
          fiVars, raceVars, grVars>>
restBulk == <<prVars, dlVars, garVars, tokVars, upVars,
            fiVars, raceVars, grVars>>
restGar == <<prVars, dlVars, bulkVars, tokVars, upVars,
           fiVars, raceVars, grVars>>
restTok == <<doVars, prVars, dlVars, bulkVars, garVars, upVars,
           fiVars, raceVars, grVars>>
restUp == <<prVars, dlVars, bulkVars, garVars, tokVars,
          fiVars, raceVars, grVars>>
restFi == <<doVars, prVars, appVars, dlVars, bulkVars, garVars,
          tokVars, upVars, raceVars, grVars>>
restRace == <<doVars, prVars, dlVars, bulkVars, garVars, tokVars,
            upVars, fiVars, grVars>>
restGr == <<prVars, dlVars, bulkVars, garVars, tokVars, upVars,
          fiVars, raceVars>>

vars == <<Client, Timeout, callerPc, netPc, netRes, done, timer, drainPc,
          cancelCalled, bodyClosed, ret, resultFirst,
          prPc, prResp, prOut, prClosed,
          Domain, User, Password, token, requestsBuilt, netRequests,
          dlPc, dlResp, dlRet, dlBodyClosed, stream, srcPos, relayPc, chunk,
          readEr, copyErr, pipe, consumer, got, consumerSaw,
          opName, nItems, opPc, opRet, opOut,
          server, garPc, recs, queries, pages, lastOut, garRet,
          basicAuth, calls, firstCreds, lastCreds, lastReq,
          upPc, upFail, upOut, upRet, tempFile, upData,
          fiPc, payload, fi, fiErr,
          taskPc, sawEmpty, taskAuth, tokenWrites,
          grPc, grOut, grRet>>

Nil == "nil"

DEFAULT_TIMEOUT == 600

ErrTimeout == "Timeout"
ErrInvalidResponse == "Invalid Response"
ErrTooMany == "Too many records"

\* ---------------------------------------------------------------------------
\* Errors, responses, JSON bodies
\* ---------------------------------------------------------------------------

\* An error value: nil, a plain error (the library's own or one passed
\* through from below), or an *AppError.
NoError ==
    [type |-> "nil", text |-> "", HttpStatus |-> "", HttpStatusCode |-> 0,
     Message |-> "", Id |-> "", Code |-> ""]

PlainError(text) ==
    [type |-> "error", text |-> text, HttpStatus |-> "", HttpStatusCode |-> 0,
     Message |-> "", Id |-> "", Code |-> ""]

\* The zero AppError of `var ae AppError`.
AppError ==
    [type |-> "AppError", text |-> "", HttpStatus |-> "", HttpStatusCode |-> 0,
     Message |-> "", Id |-> "", Code |-> ""]

\* The error ioutil.ReadAll reports when the body breaks off.
ReadError == PlainError("unexpected EOF")

\* An attribute of a JSON object: absent, null, a string, a number, or a
\* list of n strings.
JAbsent == [kind |-> "absent", val |-> "", n |-> 0]
JNull == [kind |-> "null", val |-> "", n |-> 0]
JNumber == [kind |-> "number", val |-> "", n |-> 0]
JString(v) == [kind |-> "string", val |-> v, n |-> 0]
JList(n) == [kind |-> "list", val |-> "", n |-> n]
JBool(b) == [kind |-> "bool", val |-> IF b THEN "true" ELSE "false", n |-> 0]

\* A body as JSON text: an object with the attributes the client looks at
\* (message, id, code of an error; ids of a bulk addition; the records of a
\* listing, as the sequence the record codec decodes them to), another JSON
\* value ("array"), or text that is not JSON ("invalid").
JObject(m, i, c) ==
    [syntax |-> "object", message |-> m, id |-> i, code |-> c,
     ids |-> JAbsent, recs |-> <<>>, fileKey |-> JAbsent, properties |-> JAbsent]
JIds(a) ==
    [syntax |-> "object", message |-> JAbsent, id |-> JAbsent, code |-> JAbsent,
     ids |-> a, recs |-> <<>>, fileKey |-> JAbsent, properties |-> JAbsent]
JRecords(rs) ==
    [syntax |-> "object", message |-> JAbsent, id |-> JAbsent, code |-> JAbsent,
     ids |-> JAbsent, recs |-> rs, fileKey |-> JAbsent, properties |-> JAbsent]
JFileKey(a) ==
    [syntax |-> "object", message |-> JAbsent, id |-> JAbsent, code |-> JAbsent,
     ids |-> JAbsent, recs |-> <<>>, fileKey |-> a, properties |-> JAbsent]
JProperties(a) ==
    [syntax |-> "object", message |-> JAbsent, id |-> JAbsent, code |-> JAbsent,
     ids |-> JAbsent, recs |-> <<>>, fileKey |-> JAbsent, properties |-> a]
JArray ==
    [syntax |-> "array", message |-> JAbsent, id |-> JAbsent, code |-> JAbsent,
     ids |-> JAbsent, recs |-> <<>>, fileKey |-> JAbsent, properties |-> JAbsent]
NotJSON ==
    [syntax |-> "invalid", message |-> JAbsent, id |-> JAbsent, code |-> JAbsent,
     ids |-> JAbsent, recs |-> <<>>, fileKey |-> JAbsent, properties |-> JAbsent]
NilBody ==
    [syntax |-> "nil", message |-> JAbsent, id |-> JAbsent, code |-> JAbsent,
     ids |-> JAbsent, recs |-> <<>>, fileKey |-> JAbsent, properties |-> JAbsent]

\* {"message":"bad field","id":"abc123","code":"GAIA_IL01"} and variants.
Bodies ==
    { JObject(JString("bad field"), JString("abc123"), JString("GAIA_IL01")),
      JObject(JString("bad field"), JAbsent, JNull),
      JObject(JNumber, JString("abc123"), JString("GAIA_IL01")),
      JObject(JAbsent, JAbsent, JAbsent),
      JArray,
      NotJSON }

StatusCodes == {200, 400, 404}

StatusLine(c) ==
    CASE c = 200 -> "200 OK"
      [] c = 400 -> "400 Bad Request"
      [] c = 404 -> "404 Not Found"

ContentTypes ==
    { "application/json", "application/json; charset=utf-8", "Application/JSON",
      "application/json; charset", "text/html", "" }

\* A response whose body is JSON text; readErr: reading the body fails;
\* atEnd: it fails after the last byte of the body has arrived (the
\* connection breaks short of the announced length).
Responses ==
    { r \in [StatusCode : StatusCodes, ContentType : ContentTypes, Body : Bodies,
             readErr : BOOLEAN, atEnd : BOOLEAN] : r.atEnd => r.readErr }

\* resp.Status
Status(resp) == StatusLine(resp.StatusCode)

\* mime.ParseMediaType on the content types above: the media type in lower
\* case, or an error for an empty value or a malformed parameter.
ParseMediaType(ct) ==
    CASE ct = "application/json" -> [mediatype |-> "application/json", err |-> FALSE]
      [] ct = "application/json; charset=utf-8" -> [mediatype |-> "application/json", err |-> FALSE]
      [] ct = "Application/JSON" -> [mediatype |-> "application/json", err |-> FALSE]
      [] ct = "application/json; charset" -> [mediatype |-> "application/json", err |-> TRUE]
      [] ct = "text/html" -> [mediatype |-> "text/html", err |-> FALSE]
      [] ct = "" -> [mediatype |-> "", err |-> TRUE]

\* The content types that declare application/json and parse as a media type.
DeclaresJSON(ct) ==
    ct \in {"application/json", "application/json; charset=utf-8", "Application/JSON"}

\* isJSON that ignores the error of mime.ParseMediaType.
isJSON_Lenient(contentType) ==
    ParseMediaType(contentType).mediatype = "application/json"

isJSON(contentType) ==
    LET p == ParseMediaType(contentType)
    IN  IF p.err THEN FALSE ELSE p.mediatype = "application/json"

\* ioutil.ReadAll(resp.Body): the whole body, or what came before the
\* failure together with the error: the whole body again when the failure
\* came after its last byte, else a part of it, which is not valid JSON.
ReadAll(resp) ==
    IF resp.readErr
      THEN [data |-> IF resp.atEnd THEN resp.Body ELSE NotJSON, err |-> ReadError]
      ELSE [data |-> resp.Body, err |-> NoError]

\* One string attribute of json.Unmarshal(body, &ae): a string is stored,
\* anything else leaves the field as it was.
UnmarshalField(old, attr) == IF attr.kind = "string" THEN attr.val ELSE old

\* json.Unmarshal(body, &ae): text that is not JSON changes nothing; a JSON
\* value that is not an object changes nothing; in an object every
\* attribute of the right type is stored and the others are skipped.  ok
\* tells whether Unmarshal returned nil.
UnmarshalAppError(body, ae) ==
    IF body.syntax # "object"
      THEN [ae |-> ae, ok |-> FALSE]
      ELSE [ae |-> [ae EXCEPT !.Message = UnmarshalField(@, body.message),
                              !.Id = UnmarshalField(@, body.id),
                              !.Code = UnmarshalField(@, body.code)],
            ok |-> \A a \in {body.message, body.id, body.code} :
                     a.kind \in {"absent", "null", "string"}]

\* parseResponse, lines 169-189.  closed: resp.Body.Close() was called.
parseResponse(resp) ==
    LET r == ReadAll(resp)
    IN  IF r.err # NoError
          THEN [body |-> NilBody, err |-> r.err, closed |-> TRUE]
          ELSE IF resp.StatusCode # 200
            THEN IF ~isJSON(resp.ContentType)
                   THEN [body |-> NilBody,
                         err |-> [AppError EXCEPT !.HttpStatus = Status(resp),
                                                  !.HttpStatusCode = resp.StatusCode],
                         closed |-> TRUE]
                   ELSE [body |-> NilBody,
                         err |-> [UnmarshalAppError(r.data, AppError).ae
                                    EXCEPT !.HttpStatus = Status(resp),
                                           !.HttpStatusCode = resp.StatusCode],
                         closed |-> TRUE]
            ELSE [body |-> r.data, err |-> NoError, closed |-> TRUE]

NoResponse == [StatusCode |-> 0, ContentType |-> "", Body |-> NilBody, readErr |-> FALSE, atEnd |-> FALSE]

NoOutput == [body |-> NilBody, err |-> NoError]

IdlePr ==
    /\ prPc = "idle"
    /\ prResp = NoResponse
    /\ prOut = NoOutput
    /\ prClosed = FALSE

\* ---------------------------------------------------------------------------
\* newRequest and what do gives back to an operation
\* ---------------------------------------------------------------------------

\* Domains: one that makes a URL http.NewRequest accepts, one that does not
\* (a space in the host is escaped to %20, which the URL parser rejects).
Domains == {"example.cybozu.com", "bad host"}

ValidHost(d) == d = "example.cybozu.com"

\* base64.StdEncoding.EncodeToString on the credentials of the model.
Base64(s) ==
    CASE s = "user:pass" -> "dXNlcjpwYXNz"
      [] s = "user:secret" -> "dXNlcjpzZWNyZXQ="
      [] s = "admin:pass" -> "YWRtaW46cGFzcw=="
      [] s = "admin:secret" -> "YWRtaW46c2VjcmV0"
      [] s = ":" -> "Og=="

\* Accounts the caller may configure (lines 76-77).
Users == {"user", "admin"}
Passwords == {"pass", "secret"}

\* app.basicAuth and its credentials.
NoBasicAuth == [on |-> FALSE, user |-> "", password |-> ""]

NoRequest == [built |-> FALSE, auth |-> "", basic |-> "", contentType |-> ""]

\* newRequest that computes the token at every call.
newRequest_Recompute(tok, user, password, domain, ba) ==
    LET t == Base64(user \o ":" \o password)
    IN  IF ~ValidHost(domain)
          THEN [token |-> t, req |-> NoRequest, err |-> PlainError("invalid URL")]
          ELSE [token |-> t,
                req |-> [built |-> TRUE, auth |-> t,
                         basic |-> IF ba.on THEN Base64(ba.user \o ":" \o ba.password)
                                            ELSE "",
                         contentType |-> "application/json"],
                err |-> NoError]

\* newRequest, lines 95-115: the token is computed when it is empty, before
\* the URL is tried; the request carries the token in X-Cybozu-Authorization
\* and, with basic authentication on, the basic credentials.
newRequest(tok, user, password, domain, ba) ==
    LET t == IF tok = "" THEN Base64(user \o ":" \o password) ELSE tok
    IN  IF ~ValidHost(domain)
          THEN [token |-> t, req |-> NoRequest, err |-> PlainError("invalid URL")]
          ELSE [token |-> t,
                req |-> [built |-> TRUE, auth |-> t,
                         basic |-> IF ba.on THEN Base64(ba.user \o ":" \o ba.password)
                                            ELSE "",
                         contentType |-> "application/json"],
                err |-> NoError]

\* The outcomes of app.do as an operation sees them: a transport error,
\* ErrTimeout, or a response.
DoErrors == {PlainError("net error"), PlainError(ErrTimeout)}

IdleApp ==
    /\ Domain = "example.cybozu.com"
    /\ User = "user"
    /\ Password = "pass"
    /\ token = ""
    /\ requestsBuilt = 0
    /\ netRequests = 0
    /\ basicAuth = NoBasicAuth

\* No body stream, no file.
NoStream == [len |-> 0, failAt |-> -1]

NoFile == [data |-> Nil, ContentType |-> "", err |-> NoError]

IdleDl ==
    /\ dlPc = "idle"
    /\ dlResp = NoResponse
    /\ dlRet = NoFile
    /\ dlBodyClosed = FALSE
    /\ stream = NoStream
    /\ srcPos = 0
    /\ relayPc = "unborn"
    /\ chunk = <<>>
    /\ readEr = Nil
    /\ copyErr = Nil
    /\ pipe = "open"
    /\ consumer = "none"
    /\ got = <<>>
    /\ consumerSaw = "nothing"

\* The components below are at rest.
IdleFi ==
    /\ fiPc = "idle"
    /\ payload = <<>>
    /\ fi = <<>>
    /\ fiErr = FALSE

IdleRace ==
    /\ taskPc = <<>>
    /\ sawEmpty = <<>>
    /\ taskAuth = <<>>
    /\ tokenWrites = 0

IdleGr ==
    /\ grPc = "idle"
    /\ grOut = NoResponse
    /\ grRet = [data |-> [kind |-> "nil", n |-> 0], err |-> NoError]

IdleRest == IdleFi /\ IdleRace /\ IdleGr

IdleTok ==
    /\ calls = 0
    /\ firstCreds = ""
    /\ lastCreds = ""
    /\ lastReq = NoRequest

NoUpload == [key |-> "", err |-> NoError]

IdleUp ==
    /\ upPc = "idle"
    /\ upFail = "none"
    /\ upOut = [err |-> NoError, resp |-> NoResponse]
    /\ upRet = NoUpload
    /\ tempFile = "none"
    /\ upData = "none"

\* What an operation returns besides its error: nothing, or n record ids.
NoData == [kind |-> "nil", n |-> 0]
Ids(n) == [kind |-> "ids", n |-> n]

NoReturn == [data |-> NoData, err |-> NoError]

IdleBulk ==
    /\ opName = "none"
    /\ nItems = 0
    /\ opPc = "idle"
    /\ opRet = NoReturn
    /\ opOut = [err |-> NoError, resp |-> NoResponse]

NoOutcome == [err |-> NoError, resp |-> NoResponse]

NoRecords == [recs |-> <<>>, isNil |-> TRUE, err |-> NoError]

IdleGar ==
    /\ server = [kind |-> "none", L |-> 0]
    /\ garPc = "idle"
    /\ recs = <<>>
    /\ queries = <<>>
    /\ pages = <<>>
    /\ lastOut = NoOutcome
    /\ garRet = NoRecords

\* ---------------------------------------------------------------------------
\* The service: what Client.Do can answer the request of each operation with
\* ---------------------------------------------------------------------------

Min(a, b) == IF a < b THEN a ELSE b

BulkOps == {"AddRecords", "UpdateRecords", "DeleteRecords"}

\* The responses to a bulk operation: errors of either content type, and
\* 200 responses whose body has the ids, has none, has them with the wrong
\* type, or is not JSON.
BulkResponses ==
    { r \in Responses : r.ContentType \in {"application/json", "text/html"} }
    \cup [StatusCode : {200}, ContentType : {"application/json"},
          Body : {JIds(JList(2)), JIds(JNumber)}, readErr : {FALSE}, atEnd : {FALSE}]

SimpleOps == {"GetRecords", "AddRecord", "UpdateRecord", "Fields"}

\* The properties of a form: n field descriptions whose boolean-like
\* attributes all are strings ("strings"), one of which holds a JSON
\* boolean ("bool"), or which all carry the same field code ("samecode").
JFieldList(n, flags) == [kind |-> "fields", val |-> flags, n |-> n]

SimpleResponses ==
    { r \in Responses : r.ContentType \in {"application/json", "text/html"} }
    \cup [StatusCode : {200}, ContentType : {"application/json"},
          Body : {JRecords(<<1, 2>>),
                  JProperties(JFieldList(2, "strings")),
                  JProperties(JFieldList(2, "samecode")),
                  JProperties(JFieldList(1, "bool")),
                  JProperties(JNumber)},
          readErr : {FALSE}, atEnd : {FALSE}]

UploadResponses ==
    { r \in Responses : r.ContentType \in {"application/json", "text/html"} }
    \cup [StatusCode : {200}, ContentType : {"application/json"},
          Body : {JFileKey(JString("key1")), JFileKey(JNumber)}, readErr : {FALSE}, atEnd : {FALSE}]

GetRecordResponses ==
    { r \in Responses : r.ContentType \in {"application/json", "text/html"} }

FileResponses ==
    [StatusCode : {200}, ContentType : {"text/html", "application/json"},
     Body : {NilBody}, readErr : {FALSE}, atEnd : {FALSE}]

ErrorResponses == { r \in Responses : r.StatusCode # 200 }

\* The page size of GetAllRecords.
PageLimit == 100

\* The most listing requests a service that answers as it pleases lets
\* GetAllRecords make before it sends a short page.
MaxPages == 3

\* The numbers of records a service that honours limit and offset holds.
StoreSizes == {0, 1, 37, 99, 100, 101, 199, 200, 237}

\* The services: one that holds L records and honours limit and offset,
\* one that answers every request with a page of the size it pleases.
Servers ==
    { [kind |-> "store", L |-> l] : l \in StoreSizes }
    \cup { [kind |-> "scripted", L |-> 0] }

\* The records a store of L records holds, in its order.
Store(L) == [i \in 1..L |-> i]

\* The offset a query asks for: 0 when it names none.
Offset(q) == IF q.hasOffset THEN q.offset ELSE 0

\* The k-th page of the service that answers as it pleases: n records that
\* no other page has.
ScriptedPage(k, n) == [i \in 1..n |-> 1000 * k + i]

\* The pages the service can answer the k-th request with.
PagesFor(q, k) ==
    IF server.kind = "store"
      THEN { SubSeq(Store(server.L), Offset(q) + 1,
                    Min(Offset(q) + q.limit, server.L)) }
      ELSE { ScriptedPage(k, n) :
               n \in (IF k < MaxPages THEN {0, 37, PageLimit} ELSE {0, 37}) }

\* The responses that make a page fetch fail: an error with a JSON body, an
\* error without, a 200 whose body breaks off, a 200 whose body is not JSON.
FaultResponses ==
    { [StatusCode |-> 400, ContentType |-> "application/json",
       Body |-> JObject(JString("bad field"), JString("abc123"), JString("GAIA_IL01")),
       readErr |-> FALSE, atEnd |-> FALSE],
      [StatusCode |-> 404, ContentType |-> "text/html", Body |-> NotJSON,
       readErr |-> FALSE, atEnd |-> FALSE],
      [StatusCode |-> 200, ContentType |-> "application/json",
       Body |-> JRecords(<<>>), readErr |-> TRUE, atEnd |-> FALSE],
      [StatusCode |-> 200, ContentType |-> "application/json", Body |-> NotJSON,
       readErr |-> FALSE, atEnd |-> FALSE] }

\* The responses to the k-th page fetch, which asked q: a failing response,
\* or a 200 response with a page of records.
PageResponses(q, k) ==
    FaultResponses
    \cup { [StatusCode |-> 200, ContentType |-> "application/json",
            Body |-> JRecords(pg), readErr |-> FALSE, atEnd |-> FALSE] :
            pg \in PagesFor(q, k) }

\* The responses to the request that is with Client.Do: those of the
\* operation under way; a plain 200 or a 404 page when do was handed its
\* request by no operation of this file.
Replies ==
    IF opPc # "idle"
      THEN IF opName \in BulkOps THEN BulkResponses ELSE SimpleResponses
    ELSE IF grPc # "idle" THEN GetRecordResponses
    ELSE IF garPc # "idle"
      THEN PageResponses(queries[Len(queries)], Len(queries))
    ELSE IF dlPc # "idle" THEN ErrorResponses \cup FileResponses
    ELSE IF upPc # "idle" THEN UploadResponses
    ELSE { [StatusCode |-> 200, ContentType |-> "application/json",
             Body |-> JObject(JAbsent, JAbsent, JAbsent),
             readErr |-> FALSE, atEnd |-> FALSE],
           [StatusCode |-> 404, ContentType |-> "text/html", Body |-> NotJSON,
            readErr |-> FALSE, atEnd |-> FALSE] }

\* ---------------------------------------------------------------------------
\* App.do
\* ---------------------------------------------------------------------------

\* The clients an App can be configured with: none, one whose Transport has
\* no CancelRequest method (a nil Transport included), one whose Transport has.
Clients == {Nil, "plain", "canceller"}

\* The configured timeouts: unset, or some seconds.
Timeouts == {0, 5}

\* What Client.Do can return: a response and no error, or no response and an
\* error.
DoResults ==
    { [resp |-> r, err |-> Nil] : r \in Replies }
    \cup { [resp |-> NoResponse, err |-> "net error"] }

NoResult == [resp |-> NoResponse, err |-> "none yet"]

\* app.Client.Transport.(requestCanceler)
hasCancelRequest(c) == c = "canceller"

\* do has not been entered.
FreshDo ==
    /\ callerPc = "idle"
    /\ netPc = "unborn"
    /\ netRes = NoResult
    /\ done = <<>>
    /\ timer = "off"
    /\ drainPc = "unborn"
    /\ cancelCalled = FALSE
    /\ bodyClosed = FALSE
    /\ ret = NoResult
    /\ resultFirst = FALSE

\* No invocation of do is under way.
IdleDo ==
    /\ Client = "plain"
    /\ Timeout = DEFAULT_TIMEOUT
    /\ FreshDo

\* An App as an operation finds it: any client, the timeout left unset.
ReadyDo ==
    /\ Client \in Clients
    /\ Timeout = 0
    /\ FreshDo

InitDo ==
    /\ IdleRest
    /\ IdleTok
    /\ IdleUp
    /\ Client \in Clients
    /\ Timeout \in Timeouts
    /\ callerPc = "call"
    /\ netPc = "unborn"
    /\ netRes = NoResult
    /\ done = <<>>
    /\ timer = "off"
    /\ drainPc = "unborn"
    /\ cancelCalled = FALSE
    /\ bodyClosed = FALSE
    /\ ret = NoResult
    /\ resultFirst = FALSE
    /\ IdlePr
    /\ IdleApp
    /\ IdleDl
    /\ IdleBulk
    /\ IdleGar

\* Lines 118-137 and the evaluation of time.After on entering the select:
\* default the client and the timeout, make the channel, start the network
\* goroutine, arm the timer.  The invocation has a request and a response
\* of its own: nothing has cancelled the one or closed the body of the other.
doCall ==
    /\ callerPc = "call"
    /\ Client' = IF Client = Nil THEN "plain" ELSE Client
    /\ Timeout' = IF Timeout = 0 THEN DEFAULT_TIMEOUT ELSE Timeout
    /\ done' = <<>>
    /\ netPc' = "Do"
    /\ timer' = "armed"
    /\ callerPc' = "select"
    /\ netRes' = NoResult
    /\ resultFirst' = FALSE
    /\ cancelCalled' = FALSE
    /\ bodyClosed' = FALSE
    /\ UNCHANGED <<drainPc, ret, restDo>>

\* Line 135: Client.Do returns.
netDo ==
    /\ netPc = "Do"
    /\ \E r \in DoResults : netRes' = r
    /\ netPc' = "send"
    /\ UNCHANGED <<Client, Timeout, callerPc, done, timer, drainPc,
                   cancelCalled, bodyClosed, ret, resultFirst, restDo>>

\* netSend on a channel without a slot: the send waits for a receiver.
netSend_Unbuffered ==
    /\ netPc = "send"
    /\ Len(done) < 1
    /\ callerPc = "select" \/ drainPc = "recv"
    /\ done' = Append(done, netRes)
    /\ netPc' = "exit"
    /\ resultFirst' = (timer # "fired")
    /\ UNCHANGED <<Client, Timeout, callerPc, netRes, timer, drainPc,
                   cancelCalled, bodyClosed, ret, restDo>>

\* Line 136: done <- result{resp, err}; blocks while the channel is full.
netSend ==
    /\ netPc = "send"
    /\ Len(done) < 1
    /\ done' = Append(done, netRes)
    /\ netPc' = "exit"
    /\ resultFirst' = (timer # "fired")
    /\ UNCHANGED <<Client, Timeout, callerPc, netRes, timer, drainPc,
                   cancelCalled, bodyClosed, ret, restDo>>

\* The timer of time.After(app.Timeout) expires.
timerFire ==
    /\ timer = "armed"
    /\ timer' = "fired"
    /\ UNCHANGED <<Client, Timeout, callerPc, netPc, netRes, done, drainPc,
                   cancelCalled, bodyClosed, ret, resultFirst, restDo>>

\* Lines 144-145: the select takes `r := <-done`.
selectDone ==
    /\ callerPc = "select"
    /\ Len(done) > 0
    /\ ret' = Head(done)
    /\ done' = Tail(done)
    /\ callerPc' = "returned"
    /\ UNCHANGED <<Client, Timeout, netPc, netRes, timer, drainPc,
                   cancelCalled, bodyClosed, resultFirst, restDo>>

\* selectTimeout that receives the network result itself before returning
\* when the request cannot be cancelled.
selectTimeout_Waits ==
    /\ callerPc = "select"
    /\ timer = "fired"
    /\ IF hasCancelRequest(Client)
         THEN cancelCalled' = TRUE /\ done' = done /\ bodyClosed' = bodyClosed
         ELSE /\ Len(done) > 0
              /\ bodyClosed' = IF Head(done).err = Nil THEN TRUE ELSE bodyClosed
              /\ done' = Tail(done)
              /\ cancelCalled' = cancelCalled
    /\ ret' = [resp |-> NoResponse, err |-> ErrTimeout]
    /\ callerPc' = "returned"
    /\ UNCHANGED <<Client, Timeout, netPc, netRes, timer, drainPc, resultFirst, restDo>>

\* Lines 146-157: the select takes `<-time.After(app.Timeout)`.
selectTimeout ==
    /\ callerPc = "select"
    /\ timer = "fired"
    /\ IF hasCancelRequest(Client)
         THEN cancelCalled' = TRUE /\ drainPc' = drainPc
         ELSE drainPc' = "recv" /\ cancelCalled' = cancelCalled
    /\ ret' = [resp |-> NoResponse, err |-> ErrTimeout]
    /\ callerPc' = "returned"
    /\ UNCHANGED <<Client, Timeout, netPc, netRes, done, timer, bodyClosed,
                   resultFirst, restDo>>

\* Lines 151-154: the detached goroutine receives the result and closes the
\* body of a successful response.
drainRecv ==
    /\ drainPc = "recv"
    /\ Len(done) > 0
    /\ bodyClosed' = IF Head(done).err = Nil THEN TRUE ELSE bodyClosed
    /\ done' = Tail(done)
    /\ drainPc' = "exit"
    /\ UNCHANGED <<Client, Timeout, callerPc, netPc, netRes, timer,
                   cancelCalled, ret, resultFirst, restDo>>

NextDo ==
    \/ doCall
    \/ netDo
    \/ netSend
    \/ timerFire
    \/ selectDone
    \/ selectTimeout
    \/ drainRecv

SpecDo == InitDo /\ [][NextDo]_vars

\* The scheduling the executor relies on: the caller's goroutine runs, the
\* timer expires, a goroutine blocked on a ready channel proceeds.  Client.Do
\* (netDo) is under no obligation to return.
FairSpecDo ==
    /\ SpecDo
    /\ WF_vars(doCall)
    /\ WF_vars(timerFire)
    /\ WF_vars(selectTimeout)
    /\ WF_vars(netSend)
    /\ WF_vars(drainRecv)

TimeoutResult == [resp |-> NoResponse, err |-> ErrTimeout]

\* C2: whenever the timer has fired before the caller receives the result,
\* the caller's select returns (nil, ErrTimeout), whatever the network
\* goroutine is doing; and when the caller has ErrTimeout the request was
\* cancelled through CancelRequest when the transport has it and no
\* goroutine was started, otherwise a detached goroutine was started to
\* receive the result and CancelRequest was not called.
C2_TimeoutPath ==
    /\ [][(callerPc = "select" /\ timer = "fired" /\ callerPc' = "returned")
            => ret' = TimeoutResult]_vars
    /\ [](ret = TimeoutResult =>
            IF hasCancelRequest(Client)
              THEN cancelCalled /\ drainPc = "unborn"
              ELSE drainPc # "unborn" /\ ~cancelCalled)

\* C3: every invocation of do returns to its caller, also when Client.Do
\* never returns, provided the timer fires.
C3_DoReturns == <>(callerPc = "returned")

\* do has returned although Client.Do never did.
C3_Witness == callerPc = "returned" /\ netPc = "Do" /\ netRes = NoResult

\* Nothing of the invocation can take a step any more.
QuiescentDo == callerPc = "returned" /\ netPc = "exit" /\ ~ENABLED drainRecv

\* C8: when do returned ErrTimeout and Client.Do produced a successful
\* response, the body of that response gets closed: once every goroutine of
\* the invocation has come to rest the body is closed.
C8_OrphanBodyClosed ==
    (QuiescentDo /\ ret = TimeoutResult /\ netRes.err = Nil) => bodyClosed

\* C16: when the network goroutine has sent its (resp, err) pair into done
\* before the timer fired, do returns exactly that pair, never ErrTimeout,
\* also when the select runs only after the timer has fired as well.
C16_ResultWins ==
    (callerPc = "returned" /\ resultFirst) => ret = netRes

\* The caller received from done / the detached goroutine did.
CallerReceived == callerPc = "returned" /\ ret # TimeoutResult
DrainReceived == drainPc = "exit"

\* C20: the channel holds at most one result; the send of the network
\* goroutine is never blocked (the slot is free whenever it is about to
\* send) and happens once, by the step from "send" to "exit", so it always
\* completes; only that step puts a result into the channel, only a receive
\* of the caller or of the detached goroutine takes it out, and at most one
\* of the two ever receives.
C20_SingleSlot ==
    /\ [](Len(done) <= 1)
    /\ [](netPc = "send" => (done = <<>> /\ ENABLED netSend))
    /\ [](netPc = "exit" =>
            (done = <<netRes>> \/ (done = <<>> /\ (CallerReceived \/ DrainReceived))))
    /\ [](netPc # "exit" => (done = <<>> /\ ~CallerReceived /\ ~DrainReceived))
    /\ [](~(CallerReceived /\ DrainReceived))
    /\ [][Len(done') > Len(done) =>
            (netPc = "send" /\ netPc' = "exit" /\ done' = <<netRes>>)]_vars
    /\ [][netPc = "exit" => netPc' = "exit"]_vars
    /\ [](netPc = "send" => <>(netPc = "exit"))

\* The result was sent with nobody receiving: the caller had left with
\* ErrTimeout and the request was cancelled, no goroutine drains.
C20_Witness ==
    /\ netPc = "exit" /\ done = <<netRes>> /\ netRes.err = Nil
    /\ ret = TimeoutResult /\ cancelCalled /\ drainPc = "unborn"
    /\ ~resultFirst

\* ---------------------------------------------------------------------------
\* An operation and do
\* ---------------------------------------------------------------------------

\* The outcome nr of newRequest and the call of do that follows it (for
\* GetRecord lines 197-202): the token is set also when no request comes
\* out; a request that was built enters do.
Hand(nr) ==
    /\ token' = nr.token
    /\ IF nr.err # NoError
         THEN UNCHANGED <<requestsBuilt, netRequests, callerPc>>
         ELSE /\ requestsBuilt' = requestsBuilt + 1
              /\ netRequests' = netRequests + 1
              /\ callerPc' = "call"
    /\ UNCHANGED <<Domain, User, Password, basicAuth, doButCaller>>

\* What do has returned (line 145 or 157), as its caller sees it.
DoOutcome ==
    [err |-> IF ret.err = Nil THEN NoError ELSE PlainError(ret.err),
     resp |-> ret.resp]

\* ---------------------------------------------------------------------------
\* Download
\* ---------------------------------------------------------------------------

\* Longest response body, largest number of bytes one Read of the body
\* returns, largest buffer the consumer reads into.
MaxBody == 3
MaxChunk == 2
MaxBuf == 2

\* The body of a 200 response: len bytes, and the number of bytes after
\* which reading it fails (-1: it ends cleanly).
Streams == { [len |-> l, failAt |-> f] : l \in 0..MaxBody, f \in -1..MaxBody }
             \ { st \in [len : 0..MaxBody, failAt : -1..MaxBody] : st.failAt > st.len }

\* The bytes of the body, each distinct.
Bytes(st) == [i \in 1..st.len |-> i]

\* Where reading the body stops, and with what.
ReadLimit(st) == IF st.failAt = -1 THEN st.len ELSE st.failAt
EndError(st) == IF st.failAt = -1 THEN "EOF" ELSE "read error"

\* Lines 313-327: the non-200 path of Download.
downloadError(resp) ==
    IF ~isJSON(resp.ContentType)
      THEN [err |-> [AppError EXCEPT !.HttpStatus = Status(resp),
                                     !.HttpStatusCode = resp.StatusCode],
            closed |-> FALSE]
      ELSE [err |-> [UnmarshalAppError(ReadAll(resp).data, AppError).ae
                       EXCEPT !.HttpStatus = Status(resp),
                              !.HttpStatusCode = resp.StatusCode],
            closed |-> TRUE]

InitDownload ==
    /\ IdleRest
    /\ IdleTok
    /\ IdleUp
    /\ ReadyDo
    /\ IdlePr
    /\ IdleBulk
    /\ IdleGar
    /\ Domain \in Domains
    /\ User = "user"
    /\ Password = "pass"
    /\ token = ""
    /\ requestsBuilt = 0
    /\ netRequests = 0
    /\ basicAuth = NoBasicAuth
    /\ dlPc = "call"
    /\ dlResp = NoResponse
    /\ dlRet = NoFile
    /\ dlBodyClosed = FALSE
    /\ stream = NoStream
    /\ srcPos = 0
    /\ relayPc = "unborn"
    /\ chunk = <<>>
    /\ readEr = Nil
    /\ copyErr = Nil
    /\ pipe = "open"
    /\ consumer = "none"
    /\ got = <<>>
    /\ consumerSaw = "nothing"

\* Download, lines 300-309: build the request and hand it to do.
Download ==
    /\ dlPc = "call"
    /\ LET nr == newRequest(token, User, Password, Domain, basicAuth)
       IN  /\ Hand(nr)
           /\ dlRet' = [data |-> Nil, ContentType |-> "", err |-> nr.err]
           /\ dlPc' = IF nr.err # NoError THEN "returned" ELSE "do"
    /\ UNCHANGED <<dlResp, dlBodyClosed, stream, srcPos, relayPc, chunk, readEr,
                   copyErr, pipe, consumer, got, consumerSaw, restDl>>

\* Lines 309-320 and 329-339: do has returned.  Its error is returned; a
\* non-200 response that does not declare JSON becomes an AppError, its body
\* left alone; one that does has its body read (line 321); for a 200
\* response the relay goroutine is started and the read end of the pipe
\* returned.
DownloadAfterDo ==
    /\ dlPc = "do"
    /\ callerPc = "returned"
    /\ dlResp' = ret.resp
    /\ IF ret.err # Nil
         THEN /\ dlRet' = [data |-> Nil, ContentType |-> "", err |-> PlainError(ret.err)]
              /\ dlPc' = "returned"
              /\ UNCHANGED <<stream, relayPc, consumer>>
         ELSE IF ret.resp.StatusCode # 200
           THEN IF ~isJSON(ret.resp.ContentType)
                  THEN /\ dlRet' = [data |-> Nil, ContentType |-> "",
                                    err |-> downloadError(ret.resp).err]
                       /\ dlPc' = "returned"
                       /\ UNCHANGED <<stream, relayPc, consumer>>
                  ELSE /\ dlPc' = "ReadAll"
                       /\ UNCHANGED <<dlRet, stream, relayPc, consumer>>
           ELSE \E st \in Streams :
                  /\ stream' = st
                  /\ dlRet' = [data |-> "FileData",
                               ContentType |-> ret.resp.ContentType,
                               err |-> NoError]
                  /\ relayPc' = "read"
                  /\ consumer' = "reading"
                  /\ dlPc' = "returned"
    /\ UNCHANGED <<appVars, doVars, dlBodyClosed, srcPos, chunk, readEr, copyErr,
                   pipe, got, consumerSaw, restDl>>

\* Lines 321-326: ioutil.ReadAll returns, with the body or with what came
\* before the failure; the body is closed and what was read decoded.
DownloadReadAll ==
    /\ dlPc = "ReadAll"
    /\ dlRet' = [data |-> Nil, ContentType |-> "", err |-> downloadError(dlResp).err]
    /\ dlBodyClosed' = downloadError(dlResp).closed
    /\ dlPc' = "returned"
    /\ UNCHANGED <<appVars, doVars, dlResp, stream, srcPos, relayPc, chunk, readEr,
                   copyErr, pipe, consumer, got, consumerSaw, restDl>>

\* io.Copy, one Read of resp.Body (line 331): some bytes, possibly together
\* with the error that ends the body, or no bytes and that error.
relayRead ==
    /\ relayPc = "read"
    /\ IF srcPos < ReadLimit(stream)
         THEN \E n \in 1..Min(ReadLimit(stream) - srcPos, MaxChunk) :
              \E withEnd \in BOOLEAN :
                /\ chunk' = SubSeq(Bytes(stream), srcPos + 1, srcPos + n)
                /\ srcPos' = srcPos + n
                /\ readEr' = IF withEnd /\ srcPos + n = ReadLimit(stream)
                               THEN EndError(stream) ELSE Nil
                /\ relayPc' = "write"
                /\ UNCHANGED copyErr
         ELSE /\ readEr' = EndError(stream)
              /\ copyErr' = IF EndError(stream) = "EOF" THEN Nil ELSE EndError(stream)
              /\ relayPc' = "closeBody"
              /\ UNCHANGED <<chunk, srcPos>>
    /\ UNCHANGED <<appVars, dlPc, dlResp, dlRet, dlBodyClosed, stream, pipe,
                   consumer, got, consumerSaw, doVars, restDl>>

\* io.Copy, pout.Write returns once the reader has taken every byte of the
\* chunk; the copy loop then ends on the error of the Read, or reads again.
relayWritten ==
    /\ relayPc = "write"
    /\ chunk = <<>>
    /\ IF readEr # Nil
         THEN /\ copyErr' = IF readEr = "EOF" THEN Nil ELSE readEr
              /\ relayPc' = "closeBody"
         ELSE /\ relayPc' = "read"
              /\ UNCHANGED copyErr
    /\ UNCHANGED <<appVars, dlPc, dlResp, dlRet, dlBodyClosed, stream, srcPos,
                   chunk, readEr, pipe, consumer, got, consumerSaw, doVars, restDl>>

\* Line 332: resp.Body.Close().
relayCloseBody ==
    /\ relayPc = "closeBody"
    /\ dlBodyClosed' = TRUE
    /\ relayPc' = "closePipe"
    /\ UNCHANGED <<appVars, dlPc, dlResp, dlRet, stream, srcPos, chunk, readEr,
                   copyErr, pipe, consumer, got, consumerSaw, doVars, restDl>>

\* relayClosePipe that closes the pipe without the error.
relayClosePipe_NoError ==
    /\ relayPc = "closePipe"
    /\ pipe' = "eof"
    /\ relayPc' = "exit"
    /\ UNCHANGED <<appVars, dlPc, dlResp, dlRet, dlBodyClosed, stream, srcPos,
                   chunk, readEr, copyErr, consumer, got, consumerSaw, doVars, restDl>>

\* Lines 333-337: pout.CloseWithError(err) or pout.Close().
relayClosePipe ==
    /\ relayPc = "closePipe"
    /\ pipe' = IF copyErr # Nil THEN "error" ELSE "eof"
    /\ relayPc' = "exit"
    /\ UNCHANGED <<appVars, dlPc, dlResp, dlRet, dlBodyClosed, stream, srcPos,
                   chunk, readEr, copyErr, consumer, got, consumerSaw, doVars, restDl>>

\* One Read of FileData.Reader into a buffer of k bytes: bytes of the
\* pending Write, or the end of the stream once the write end is closed;
\* it blocks while there is neither.
consumerRead ==
    /\ consumer = "reading"
    /\ \E k \in 1..MaxBuf :
         IF chunk # <<>>
           THEN /\ got' = got \o SubSeq(chunk, 1, Min(k, Len(chunk)))
                /\ chunk' = SubSeq(chunk, Min(k, Len(chunk)) + 1, Len(chunk))
                /\ UNCHANGED <<consumer, consumerSaw>>
           ELSE /\ pipe # "open"
                /\ consumerSaw' = IF pipe = "eof" THEN "EOF" ELSE copyErr
                /\ consumer' = "ended"
                /\ UNCHANGED <<got, chunk>>
    /\ UNCHANGED <<appVars, dlPc, dlResp, dlRet, dlBodyClosed, stream, srcPos,
                   relayPc, readEr, copyErr, pipe, doVars, restDl>>

\* The consumer reads no more.
consumerStop ==
    /\ consumer = "reading"
    /\ consumer' = "stopped"
    /\ UNCHANGED <<appVars, dlPc, dlResp, dlRet, dlBodyClosed, stream, srcPos,
                   relayPc, chunk, readEr, copyErr, pipe, got, consumerSaw, doVars, restDl>>

NextDownload ==
    \/ Download
    \/ NextDo
    \/ DownloadAfterDo
    \/ DownloadReadAll
    \/ relayRead
    \/ relayWritten
    \/ relayCloseBody
    \/ relayClosePipe
    \/ consumerRead
    \/ consumerStop

SpecDownload == InitDownload /\ [][NextDownload]_vars

\* The relay goroutine runs, and a consumer that has not stopped reads.
FairSpecDownload ==
    /\ SpecDownload
    /\ WF_vars(relayRead)
    /\ WF_vars(relayWritten)
    /\ WF_vars(relayCloseBody)
    /\ WF_vars(relayClosePipe)
    /\ WF_vars(consumerRead)

\* C9: on every non-200 path Download closes the response body before it
\* returns, and returns the error parseResponse returns for that response.
C9_DownloadLikeClassifier ==
    (dlPc = "returned" /\ dlResp.StatusCode \notin {0, 200}) =>
      /\ dlBodyClosed
      /\ dlRet.err = parseResponse(dlResp).err

IsPrefix(p, q) == Len(p) <= Len(q) /\ p = SubSeq(q, 1, Len(p))

\* C10: what the consumer has read is always a prefix of the body; it sees
\* end-of-stream only after all the bytes of a body that ended cleanly, and
\* the read error only after exactly the bytes that came before the
\* failure; either way the relay goroutine has closed the body by then; and
\* a consumer that keeps reading gets to one of the two.
C10_Relay ==
    /\ [](IsPrefix(got, Bytes(stream)))
    /\ [](consumerSaw = "EOF" =>
            /\ stream.failAt = -1 /\ got = Bytes(stream)
            /\ dlBodyClosed /\ relayPc = "exit")
    /\ [](consumerSaw \notin {"EOF", "nothing"} =>
            /\ stream.failAt # -1 /\ consumerSaw = "read error"
            /\ got = SubSeq(Bytes(stream), 1, stream.failAt)
            /\ dlBodyClosed /\ relayPc = "exit")
    /\ [](dlRet.data = "FileData" =>
            <>(consumer = "stopped"
               \/ consumerSaw = (IF stream.failAt = -1 THEN "EOF" ELSE "read error")))

\* The consumer got two bytes and then the read error, from a body of three
\* bytes that failed after two.
C10_Witness ==
    /\ dlRet.data = "FileData"
    /\ stream = [len |-> 3, failAt |-> 2]
    /\ consumerSaw = "read error" /\ got = <<1, 2>> /\ dlBodyClosed

\* Neither the relay goroutine nor the consumer can take a step any more.
QuiescentDownload ==
    /\ dlPc = "returned"
    /\ ~ENABLED relayRead /\ ~ENABLED relayWritten
    /\ ~ENABLED relayCloseBody /\ ~ENABLED relayClosePipe
    /\ ~ENABLED consumerRead /\ ~ENABLED consumerStop

\* C17: after a Download that returned a FileData the response body gets
\* closed whichever end finishes first, the consumer that stops reading
\* included: the relay goroutine never comes to rest with the body open.
C17_BodyClosedEitherEnd ==
    (dlRet.data = "FileData" /\ QuiescentDownload) => dlBodyClosed

\* ---------------------------------------------------------------------------
\* AddRecords, UpdateRecords, DeleteRecords
\* ---------------------------------------------------------------------------

\* The limit of the bulk operations.
BatchLimit == 100

\* How far beyond the limit the arguments of the model go.
MaxOver == 2

\* The numbers of entries a bulk operation is called with: the ends of the
\* accepted range and the numbers beyond it.
BatchSizes ==
    {0, 1, BatchLimit - 1, BatchLimit} \cup (BatchLimit + 1)..(BatchLimit + MaxOver)

\* json.Unmarshal(body, &t) with t.Ids []string, lines 461-464.
UnmarshalIds(body) ==
    IF body.syntax # "object"
      THEN [data |-> NoData, ok |-> FALSE]
      ELSE IF body.ids.kind \in {"absent", "null"}
        THEN [data |-> NoData, ok |-> TRUE]
        ELSE IF body.ids.kind = "list"
          THEN [data |-> Ids(body.ids.n), ok |-> TRUE]
          ELSE [data |-> NoData, ok |-> FALSE]

InitBulk ==
    /\ IdleRest
    /\ IdleTok
    /\ IdleUp
    /\ ReadyDo
    /\ IdlePr
    /\ IdleDl
    /\ IdleGar
    /\ Domain \in Domains
    /\ User = "user"
    /\ Password = "pass"
    /\ token = ""
    /\ requestsBuilt = 0
    /\ netRequests = 0
    /\ basicAuth = NoBasicAuth
    /\ opName \in BulkOps
    /\ nItems \in BatchSizes
    /\ opPc = "call"
    /\ opRet = NoReturn
    /\ opOut = NoOutcome

\* AddRecords that rejects a batch of exactly the limit.
AddRecords_OffByOne ==
    /\ opName = "AddRecords"
    /\ opPc = "call"
    /\ IF nItems >= BatchLimit
         THEN /\ opRet' = [data |-> NoData, err |-> PlainError(ErrTooMany)]
              /\ opPc' = "returned"
              /\ UNCHANGED <<appVars, doVars>>
         ELSE LET nr == newRequest(token, User, Password, Domain, basicAuth)
              IN  /\ Hand(nr)
                  /\ opRet' = [data |-> NoData, err |-> nr.err]
                  /\ opPc' = IF nr.err # NoError THEN "returned" ELSE "do"
    /\ UNCHANGED <<opName, nItems, opOut, restBulk>>
\* AddRecords, lines 438-452: the guard, then the request goes to do.
AddRecords ==
    /\ opName = "AddRecords"
    /\ opPc = "call"
    /\ IF nItems > BatchLimit
         THEN /\ opRet' = [data |-> NoData, err |-> PlainError(ErrTooMany)]
              /\ opPc' = "returned"
              /\ UNCHANGED <<appVars, doVars>>
         ELSE LET nr == newRequest(token, User, Password, Domain, basicAuth)
              IN  /\ Hand(nr)
                  /\ opRet' = [data |-> NoData, err |-> nr.err]
                  /\ opPc' = IF nr.err # NoError THEN "returned" ELSE "do"
    /\ UNCHANGED <<opName, nItems, opOut, restBulk>>
\* UpdateRecords, lines 494-512.
UpdateRecords ==
    /\ opName = "UpdateRecords"
    /\ opPc = "call"
    /\ IF nItems > BatchLimit
         THEN /\ opRet' = [data |-> NoData, err |-> PlainError(ErrTooMany)]
              /\ opPc' = "returned"
              /\ UNCHANGED <<appVars, doVars>>
         ELSE LET nr == newRequest(token, User, Password, Domain, basicAuth)
              IN  /\ Hand(nr)
                  /\ opRet' = [data |-> NoData, err |-> nr.err]
                  /\ opPc' = IF nr.err # NoError THEN "returned" ELSE "do"
    /\ UNCHANGED <<opName, nItems, opOut, restBulk>>
\* DeleteRecords, lines 527-541.
DeleteRecords ==
    /\ opName = "DeleteRecords"
    /\ opPc = "call"
    /\ IF nItems > BatchLimit
         THEN /\ opRet' = [data |-> NoData, err |-> PlainError(ErrTooMany)]
              /\ opPc' = "returned"
              /\ UNCHANGED <<appVars, doVars>>
         ELSE LET nr == newRequest(token, User, Password, Domain, basicAuth)
              IN  /\ Hand(nr)
                  /\ opRet' = [data |-> NoData, err |-> nr.err]
                  /\ opPc' = IF nr.err # NoError THEN "returned" ELSE "do"
    /\ UNCHANGED <<opName, nItems, opOut, restBulk>>

\* do has returned to the bulk operation (for AddRecords lines 452-456):
\* its error is returned, its response goes to parseResponse, which starts
\* reading the body (line 170).
BulkAfterDo ==
    /\ opName \in BulkOps
    /\ opPc = "do"
    /\ callerPc = "returned"
    /\ opOut' = DoOutcome
    /\ IF ret.err # Nil
         THEN /\ opRet' = [data |-> NoData, err |-> PlainError(ret.err)]
              /\ opPc' = "returned"
         ELSE /\ opPc' = "ReadAll"
              /\ UNCHANGED opRet
    /\ UNCHANGED <<opName, nItems, appVars, doVars, restBulk>>

\* ioutil.ReadAll returns and parseResponse closes the body and classifies
\* the response (lines 170-188); AddRecords decodes the ids (lines 461-467),
\* UpdateRecords and DeleteRecords return the error of parseResponse (lines
\* 520-521, 545-546).
BulkReadAll ==
    /\ opName \in BulkOps
    /\ opPc = "ReadAll"
    /\ LET pr == parseResponse(ret.resp)
       IN  /\ bodyClosed' = pr.closed
           /\ opRet' = IF pr.err # NoError \/ opName # "AddRecords"
                         THEN [data |-> NoData, err |-> pr.err]
                         ELSE IF ~UnmarshalIds(pr.body).ok
                           THEN [data |-> NoData,
                                 err |-> PlainError(ErrInvalidResponse)]
                           ELSE [data |-> UnmarshalIds(pr.body).data,
                                 err |-> NoError]
    /\ opPc' = "returned"
    /\ UNCHANGED <<opName, nItems, opOut, appVars, doButBody, restBulk>>

NextBulk ==
    \/ AddRecords
    \/ UpdateRecords
    \/ DeleteRecords
    \/ NextDo
    \/ BulkAfterDo
    \/ BulkReadAll

SpecBulk == InitBulk /\ [][NextBulk]_vars

\* C1: a bulk operation called with more than 100 entries returns
\* ErrTooMany without having built or sent a request (newRequest was not
\* even entered: no token was computed); called with 0 to 100 entries it
\* is not rejected by the guard: it goes on to newRequest and, with the
\* request built, hands exactly one request to do.
C1_BatchGuard ==
    opPc = "returned" =>
      /\ nItems > 100 =>
            /\ opRet = [data |-> NoData, err |-> PlainError("Too many records")]
            /\ requestsBuilt = 0 /\ netRequests = 0 /\ token = ""
      /\ nItems <= 100 =>
            /\ opRet.err # PlainError("Too many records")
            /\ token # ""
            /\ requestsBuilt = netRequests
            /\ netRequests = (IF ValidHost(Domain) THEN 1 ELSE 0)

\* AddRecords was called with 101 records and returned ErrTooMany, no
\* request made.
C1_Witness ==
    /\ opPc = "returned" /\ opName = "AddRecords" /\ nItems = 101
    /\ opRet.err = PlainError(ErrTooMany) /\ netRequests = 0

\* ---------------------------------------------------------------------------
\* GetAllRecords
\* ---------------------------------------------------------------------------

\* query that counts the offset from one.
query_OffByOne(len) ==
    IF len > 0 THEN [limit |-> 100, hasOffset |-> TRUE, offset |-> len + 1]
               ELSE [limit |-> 100, hasOffset |-> FALSE, offset |-> 0]

\* Lines 263-266: "limit 100", or "limit 100 offset N" once there are
\* records.
query(len) ==
    IF len > 0 THEN [limit |-> 100, hasOffset |-> TRUE, offset |-> len]
               ELSE [limit |-> 100, hasOffset |-> FALSE, offset |-> 0]

\* DecodeRecords of the record codec: the records of a JSON object, an
\* error for any other body.
DecodeRecords(body) ==
    IF body.syntax = "object" THEN [recs |-> body.recs, err |-> FALSE]
                              ELSE [recs |-> <<>>, err |-> TRUE]

InitAll ==
    /\ IdleRest
    /\ IdleTok
    /\ IdleUp
    /\ ReadyDo
    /\ IdlePr
    /\ IdleDl
    /\ IdleBulk
    /\ Domain \in Domains
    /\ User = "user"
    /\ Password = "pass"
    /\ token = ""
    /\ requestsBuilt = 0
    /\ netRequests = 0
    /\ basicAuth = NoBasicAuth
    /\ server \in Servers
    /\ garPc = "call"
    /\ recs = <<>>
    /\ queries = <<>>
    /\ pages = <<>>
    /\ lastOut = NoOutcome
    /\ garRet = NoRecords

\* Line 256: recs := make([]Record, 0, 100).
GetAllRecords ==
    /\ garPc = "call"
    /\ recs' = <<>>
    /\ garPc' = "loop"
    /\ UNCHANGED <<appVars, doVars, server, queries, pages, lastOut, garRet, restGar>>

\* One turn of the loop, lines 262-272: the request for the page at the
\* offset len(recs) is built and handed to do.
GetAllRecordsQuery ==
    /\ garPc = "loop"
    /\ LET q == query(Len(recs))
           nr == newRequest(token, User, Password, Domain, basicAuth)
       IN  /\ Hand(nr)
           /\ IF nr.err # NoError
                THEN /\ lastOut' = [err |-> nr.err, resp |-> NoResponse]
                     /\ garRet' = [recs |-> <<>>, isNil |-> TRUE, err |-> nr.err]
                     /\ garPc' = "returned"
                     /\ UNCHANGED queries
                ELSE /\ queries' = Append(queries, q)
                     /\ garPc' = "do"
                     /\ UNCHANGED <<lastOut, garRet>>
    /\ UNCHANGED <<server, recs, pages, restGar>>

\* Lines 272-276: do has returned; its error is returned with nil records,
\* its response goes to parseResponse, which starts reading the body.
GetAllRecordsAfterDo ==
    /\ garPc = "do"
    /\ callerPc = "returned"
    /\ lastOut' = DoOutcome
    /\ IF ret.err # Nil
         THEN /\ garRet' = [recs |-> <<>>, isNil |-> TRUE, err |-> PlainError(ret.err)]
              /\ garPc' = "returned"
         ELSE /\ garPc' = "ReadAll"
              /\ UNCHANGED garRet
    /\ UNCHANGED <<server, recs, queries, pages, appVars, doVars, restGar>>
\* GetAllRecordsPage that goes on until a page is empty.
GetAllRecordsPage_UntilEmpty ==
    /\ garPc = "ReadAll"
    /\ LET pr == parseResponse(ret.resp)
           d == DecodeRecords(pr.body)
       IN  /\ bodyClosed' = pr.closed
           /\ IF pr.err # NoError
                THEN /\ garRet' = [recs |-> <<>>, isNil |-> TRUE, err |-> pr.err]
                     /\ garPc' = "returned"
                     /\ UNCHANGED <<recs, pages>>
                ELSE IF d.err
                  THEN /\ garRet' = [recs |-> <<>>, isNil |-> TRUE,
                                     err |-> PlainError(ErrInvalidResponse)]
                       /\ garPc' = "returned"
                       /\ UNCHANGED <<recs, pages>>
                  ELSE /\ recs' = recs \o d.recs
                       /\ pages' = Append(pages, d.recs)
                       /\ IF Len(d.recs) = 0
                            THEN /\ garRet' = [recs |-> recs \o d.recs,
                                               isNil |-> FALSE, err |-> NoError]
                                 /\ garPc' = "returned"
                            ELSE /\ garPc' = "loop"
                                 /\ UNCHANGED garRet
    /\ UNCHANGED <<server, queries, lastOut, appVars, doButBody, restGar>>
\* GetAllRecordsPage that returns what it has accumulated with the error.
GetAllRecordsPage_Partial ==
    /\ garPc = "ReadAll"
    /\ LET pr == parseResponse(ret.resp)
           d == DecodeRecords(pr.body)
       IN  /\ bodyClosed' = pr.closed
           /\ IF pr.err # NoError
                THEN /\ garRet' = [recs |-> recs, isNil |-> FALSE, err |-> pr.err]
                     /\ garPc' = "returned"
                     /\ UNCHANGED <<recs, pages>>
                ELSE IF d.err
                  THEN /\ garRet' = [recs |-> <<>>, isNil |-> TRUE,
                                     err |-> PlainError(ErrInvalidResponse)]
                       /\ garPc' = "returned"
                       /\ UNCHANGED <<recs, pages>>
                  ELSE /\ recs' = recs \o d.recs
                       /\ pages' = Append(pages, d.recs)
                       /\ IF Len(d.recs) < 100
                            THEN /\ garRet' = [recs |-> recs \o d.recs,
                                               isNil |-> FALSE, err |-> NoError]
                                 /\ garPc' = "returned"
                            ELSE /\ garPc' = "loop"
                                 /\ UNCHANGED garRet
    /\ UNCHANGED <<server, queries, lastOut, appVars, doButBody, restGar>>
\* The rest of the turn, lines 170-188 and 276-287: ioutil.ReadAll returns
\* and parseResponse closes the body; the error of parseResponse or of
\* DecodeRecords is returned with nil records; else the page is appended,
\* and all the records are returned when the page is shorter than 100.
GetAllRecordsPage ==
    /\ garPc = "ReadAll"
    /\ LET pr == parseResponse(ret.resp)
           d == DecodeRecords(pr.body)
       IN  /\ bodyClosed' = pr.closed
           /\ IF pr.err # NoError
                THEN /\ garRet' = [recs |-> <<>>, isNil |-> TRUE, err |-> pr.err]
                     /\ garPc' = "returned"
                     /\ UNCHANGED <<recs, pages>>
                ELSE IF d.err
                  THEN /\ garRet' = [recs |-> <<>>, isNil |-> TRUE,
                                     err |-> PlainError(ErrInvalidResponse)]
                       /\ garPc' = "returned"
                       /\ UNCHANGED <<recs, pages>>
                  ELSE /\ recs' = recs \o d.recs
                       /\ pages' = Append(pages, d.recs)
                       /\ IF Len(d.recs) < 100
                            THEN /\ garRet' = [recs |-> recs \o d.recs,
                                               isNil |-> FALSE, err |-> NoError]
                                 /\ garPc' = "returned"
                            ELSE /\ garPc' = "loop"
                                 /\ UNCHANGED garRet
    /\ UNCHANGED <<server, queries, lastOut, appVars, doButBody, restGar>>

NextAll ==
    \/ GetAllRecords
    \/ GetAllRecordsQuery
    \/ NextDo
    \/ GetAllRecordsAfterDo
    \/ GetAllRecordsPage

SpecAll == InitAll /\ [][NextAll]_vars

\* The goroutine that called GetAllRecords keeps running, the timer of do
\* expires, and the body of a response comes to its end.
FairSpecAll ==
    /\ SpecAll
    /\ WF_vars(GetAllRecords)
    /\ WF_vars(GetAllRecordsQuery)
    /\ WF_vars(doCall)
    /\ WF_vars(timerFire)
    /\ WF_vars(selectTimeout)
    /\ WF_vars(GetAllRecordsAfterDo)
    /\ WF_vars(GetAllRecordsPage)

RECURSIVE Concat(_)
\* The pages one after the other.
Concat(ps) == IF ps = <<>> THEN <<>> ELSE Head(ps) \o Concat(Tail(ps))

\* The records of the first k pages.
Before(ps, k) == Len(Concat(SubSeq(ps, 1, k)))

ReturnedRecords == garPc = "returned" /\ garRet.err = NoError

\* C4: the i-th listing request asks for the offset that is the number of
\* records of the pages received before it, the first one (like any sent
\* with nothing accumulated) without naming an offset; a request is sent
\* only when every earlier one has been answered with a page; and when
\* GetAllRecords returns records, full pages followed by a shorter one
\* have been received and the result is these pages one after the other.
C4_Pagination ==
    /\ Len(queries) <= Len(pages) + 1
    /\ \A i \in 1..Len(queries) :
          /\ queries[i].limit = 100
          /\ Offset(queries[i]) = Before(pages, i - 1)
          /\ queries[i].hasOffset <=> (Before(pages, i - 1) > 0)
    /\ ReturnedRecords =>
          /\ ~garRet.isNil
          /\ garRet.recs = Concat(pages)
          /\ Len(queries) = Len(pages)

\* Pages of 100, 100 and 37 records gave 237 records, requested at the
\* offsets 0, 100 and 200.
C4_Witness ==
    /\ ReturnedRecords
    /\ Len(pages) = 3
    /\ Len(pages[1]) = 100 /\ Len(pages[2]) = 100 /\ Len(pages[3]) = 37
    /\ Len(garRet.recs) = 237
    /\ garRet.recs[1] = 1001 /\ garRet.recs[101] = 2001 /\ garRet.recs[237] = 3037
    /\ Offset(queries[1]) = 0 /\ ~queries[1].hasOffset
    /\ queries[2].offset = 100 /\ queries[3].offset = 200

\* C5: GetAllRecords goes on (to the request for another page, and through
\* do and the reading of its response) only after full pages, returns on the first
\* page of fewer than 100 records (an empty one included) and sends no
\* request after it; against a service that holds L records and honours
\* limit and offset it returns exactly these L records after
\* floor(L/100)+1 listing requests; and it always returns.
C5_Termination ==
    /\ [](garPc \in {"loop", "do", "ReadAll"} =>
            \A i \in 1..Len(pages) : Len(pages[i]) = 100)
    /\ [](ReturnedRecords =>
            /\ Len(pages) >= 1
            /\ Len(pages[Len(pages)]) < 100
            /\ \A i \in 1..(Len(pages) - 1) : Len(pages[i]) = 100
            /\ Len(queries) = Len(pages) /\ netRequests = Len(pages))
    /\ [][garPc = "returned" => (queries' = queries /\ netRequests' = netRequests)]_vars
    /\ []((ReturnedRecords /\ server.kind = "store") =>
            /\ Len(queries) = (server.L \div 100) + 1
            /\ garRet.recs = Store(server.L))
    /\ [](server.kind = "store" => <>(garPc = "returned"))

\* A service holding 200 records was asked three times, the third answer
\* being an empty page.
C5_Witness ==
    /\ ReturnedRecords /\ server = [kind |-> "store", L |-> 200]
    /\ Len(queries) = 3 /\ pages[3] = <<>> /\ Len(garRet.recs) = 200

\* The page fetch failed: the request could not be built, do returned an
\* error, or the response was not a 200 with a body that decodes.
PageFailed ==
    \/ lastOut.err # NoError
    \/ /\ lastOut.resp # NoResponse
       /\ \/ lastOut.resp.StatusCode # 200
          \/ lastOut.resp.readErr
          \/ lastOut.resp.Body.syntax # "object"

\* The error a failed page fetch is reported with.
ExpectedError ==
    IF lastOut.err # NoError THEN lastOut.err
    ELSE IF lastOut.resp.readErr THEN ReadError
    ELSE IF lastOut.resp.StatusCode # 200
      THEN [AppError EXCEPT
              !.HttpStatus = StatusLine(lastOut.resp.StatusCode),
              !.HttpStatusCode = lastOut.resp.StatusCode,
              !.Message = IF DeclaresJSON(lastOut.resp.ContentType)
                            THEN lastOut.resp.Body.message.val ELSE "",
              !.Id = IF DeclaresJSON(lastOut.resp.ContentType)
                       THEN lastOut.resp.Body.id.val ELSE "",
              !.Code = IF DeclaresJSON(lastOut.resp.ContentType)
                         THEN lastOut.resp.Body.code.val ELSE ""]
    ELSE PlainError("Invalid Response")

\* C6: a page fetch that fails ends GetAllRecords with that error and no
\* records, whatever was accumulated: when do has handed over a response
\* that makes the fetch fail, the one step GetAllRecords has left is the
\* return; the failed page was requested once (not at all when the
\* request could not be built) and nothing is requested after it.
C6_PageFailure ==
    /\ [](PageFailed =>
            /\ garPc \in {"ReadAll", "returned"}
            /\ garPc = "returned" =>
                  garRet = [recs |-> <<>>, isNil |-> TRUE, err |-> ExpectedError]
            /\ netRequests = Len(pages) + (IF lastOut.resp = NoResponse
                                              /\ lastOut.err.text = "invalid URL"
                                            THEN 0 ELSE 1)
            /\ Len(queries) = netRequests)
    /\ []((garPc = "returned" /\ garRet.err # NoError) => PageFailed)
    /\ [][(PageFailed /\ garPc = "ReadAll" /\ garPc' # garPc) =>
            (garPc' = "returned" /\ netRequests' = netRequests)]_vars

\* Two full pages were accumulated when the third fetch timed out: no
\* records are returned.
C6_Witness ==
    /\ garPc = "returned" /\ garRet.err = PlainError(ErrTimeout)
    /\ garRet.isNil /\ garRet.recs = <<>>
    /\ Len(recs) = 200 /\ Len(queries) = 3

\* ---------------------------------------------------------------------------
\* parseResponse applied to every response
\* ---------------------------------------------------------------------------

InitParse ==
    /\ IdleRest
    /\ IdleTok
    /\ IdleUp
    /\ IdleDo
    /\ IdleApp
    /\ IdleDl
    /\ IdleBulk
    /\ IdleGar
    /\ prPc = "call"
    /\ prResp \in Responses
    /\ prOut = NoOutput
    /\ prClosed = FALSE

\* Lines 169-189.
parseResponseCall ==
    /\ prPc = "call"
    /\ LET out == parseResponse(prResp)
       IN  /\ prOut' = [body |-> out.body, err |-> out.err]
           /\ prClosed' = out.closed
    /\ prPc' = "returned"
    /\ UNCHANGED <<prResp, restPr>>

NextParse == parseResponseCall

SpecParse == InitParse /\ [][NextParse]_vars

\* The value an AppError field takes from a JSON body: the attribute's
\* string, when the body is a JSON object that has it as a string.
FromBody(body, attr) ==
    IF body.syntax = "object" /\ attr.kind = "string" THEN attr.val ELSE ""

\* The body is JSON that decodes into an AppError without error.
Decodes(body) ==
    /\ body.syntax = "object"
    /\ \A a \in {body.message, body.id, body.code} : a.kind \in {"absent", "null", "string"}

\* The original statement of C7: every non-200 response gives an AppError
\* with the response's status, whose Message, Id and Code are empty for a
\* content type other than application/json and for a JSON body that does
\* not decode; a 200 response read completely gives the raw body.
C7_Original ==
    prPc = "returned" =>
      /\ (prOut.err = NoError /\ prOut.body = prResp.Body)
            <=> (prResp.StatusCode = 200 /\ ~prResp.readErr)
      /\ prResp.StatusCode # 200 =>
            /\ prOut.err.type = "AppError"
            /\ prOut.err.HttpStatus = StatusLine(prResp.StatusCode)
            /\ prOut.err.HttpStatusCode = prResp.StatusCode
            /\ (~DeclaresJSON(prResp.ContentType) \/ ~Decodes(prResp.Body)) =>
                  (prOut.err.Message = "" /\ prOut.err.Id = "" /\ prOut.err.Code = "")
            /\ (DeclaresJSON(prResp.ContentType) /\ Decodes(prResp.Body)) =>
                  /\ prOut.err.Message = FromBody(prResp.Body, prResp.Body.message)
                  /\ prOut.err.Id = FromBody(prResp.Body, prResp.Body.id)
                  /\ prOut.err.Code = FromBody(prResp.Body, prResp.Body.code)

\* C7 (amended): parseResponse returns the raw body and no error exactly
\* when the status is 200 and the body was read completely; a body that
\* cannot be read gives the read error whatever the status; a non-200
\* response read completely gives an AppError with the response's status
\* line and code, Message, Id and Code empty for a content type other than
\* application/json, and otherwise each taken from the body when the body
\* is a JSON object that has the attribute as a string and empty when not.
\* The body is closed in every case.
C7_Classifier ==
    prPc = "returned" =>
      /\ prClosed
      /\ (prOut.err = NoError /\ prOut.body = prResp.Body)
            <=> (prResp.StatusCode = 200 /\ ~prResp.readErr)
      /\ prResp.readErr => (prOut.err = ReadError /\ prOut.body = NilBody)
      /\ (prResp.StatusCode # 200 /\ ~prResp.readErr) =>
            /\ prOut.body = NilBody
            /\ prOut.err.type = "AppError"
            /\ prOut.err.HttpStatus = StatusLine(prResp.StatusCode)
            /\ prOut.err.HttpStatusCode = prResp.StatusCode
            /\ ~DeclaresJSON(prResp.ContentType) =>
                  (prOut.err.Message = "" /\ prOut.err.Id = "" /\ prOut.err.Code = "")
            /\ DeclaresJSON(prResp.ContentType) =>
                  /\ prOut.err.Message = FromBody(prResp.Body, prResp.Body.message)
                  /\ prOut.err.Id = FromBody(prResp.Body, prResp.Body.id)
                  /\ prOut.err.Code = FromBody(prResp.Body, prResp.Body.code)

\* The 400 of the spec: a JSON body with message, id and code, all of them
\* in the AppError.
C7_Witness ==
    /\ prPc = "returned"
    /\ prResp.StatusCode = 400 /\ prResp.ContentType = "application/json"
    /\ prOut.err.type = "AppError"
    /\ prOut.err.HttpStatus = "400 Bad Request" /\ prOut.err.HttpStatusCode = 400
    /\ prOut.err.Message = "bad field" /\ prOut.err.Id = "abc123"
    /\ prOut.err.Code = "GAIA_IL01"

\* ---------------------------------------------------------------------------
\* Upload: the multipart body goes through a temporary file.
\* ---------------------------------------------------------------------------

\* The local steps of Upload that can fail after the file exists: CreatePart
\* (line 366, its error is overwritten), io.Copy (367), w.Close (370),
\* f.Seek (373).  The data reader Upload is given has bytes ("bytes"), is
\* at its end ("empty"), or fails at its first Read ("failing").
LocalFailures == {"none", "CreatePart", "Copy", "Close", "Seek"}

\* json.Unmarshal(body, &t) with t.FileKey string, lines 391-397.
UnmarshalFileKey(body) ==
    IF body.syntax # "object"
      THEN [key |-> "", ok |-> FALSE]
      ELSE IF body.fileKey.kind \in {"absent", "null"}
        THEN [key |-> "", ok |-> TRUE]
        ELSE IF body.fileKey.kind = "string"
          THEN [key |-> body.fileKey.val, ok |-> TRUE]
          ELSE [key |-> "", ok |-> FALSE]

InitUpload ==
    /\ ReadyDo /\ IdlePr /\ IdleDl /\ IdleBulk /\ IdleGar /\ IdleTok
    /\ IdleRest
    /\ Domain \in Domains
    /\ User = "user"
    /\ Password = "pass"
    /\ token = ""
    /\ requestsBuilt = 0
    /\ netRequests = 0
    /\ basicAuth = NoBasicAuth
    /\ upPc = "call"
    /\ upFail = "none"
    /\ upOut = [err |-> NoError, resp |-> NoResponse]
    /\ upRet = NoUpload
    /\ tempFile = "none"
    /\ upData \in {"bytes", "empty", "failing"}

\* ioutil.TempFile and the registration of the deferred os.Remove,
\* lines 352-358.
UploadTempFile ==
    /\ upPc = "call"
    /\ \E ok \in BOOLEAN :
          IF ok
            THEN /\ tempFile' = "exists"
                 /\ upPc' = "created"
                 /\ UNCHANGED <<upFail, upRet>>
            ELSE /\ upFail' = "TempFile"
                 /\ upRet' = [key |-> "", err |-> PlainError("TempFile error")]
                 /\ upPc' = "returned"
                 /\ UNCHANGED tempFile
    /\ UNCHANGED <<upOut, upData, appVars, doVars, restUp>>

\* Lines 360-375, given the local steps fs that fail and the data reader:
\* the step Upload leaves at, "panic", or "none".  A failed CreatePart
\* leaves a nil part writer and its error is overwritten: io.Copy into it
\* panics at the first byte it has to write, returns the error of a Read
\* that fails before any byte, and returns nil for a reader at its end.
UploadLocal(fs, data) ==
    IF data = "failing" THEN "Copy"
    ELSE IF data = "bytes" /\ "CreatePart" \in fs THEN "panic"
    ELSE IF data = "bytes" /\ "Copy" \in fs THEN "Copy"
    ELSE IF "Close" \in fs THEN "Close"
    ELSE IF "Seek" \in fs THEN "Seek"
    ELSE "none"

\* The deferred os.Remove of lines 356-358, run on the way out of Upload.
\* Its error is dropped and Upload never closes the file: the file is gone,
\* or it stays (a system that refuses to remove a file that is open).
deferredRemove == tempFile' \in {"removed", "exists"}

\* Lines 360-382: the local steps, newRequest and the call of do; leaving
\* by return or by panic runs the deferred os.Remove.
UploadRest ==
    /\ upPc = "created"
    /\ \E fs \in SUBSET (LocalFailures \ {"none"}) :
          LET l == UploadLocal(fs, upData)
              nr == newRequest(token, User, Password, Domain, basicAuth)
          IN  /\ upFail' = IF l = "panic" THEN "CreatePart" ELSE l
              /\ IF l = "panic"
                   THEN /\ upPc' = "panicked"
                        /\ deferredRemove
                        /\ UNCHANGED <<upRet, appVars, doVars>>
                   ELSE IF l # "none"
                     THEN /\ upRet' = [key |-> "", err |-> PlainError(l \o " error")]
                          /\ upPc' = "returned"
                          /\ deferredRemove
                          /\ UNCHANGED <<appVars, doVars>>
                     ELSE /\ Hand(nr)
                          /\ IF nr.err # NoError
                               THEN /\ upRet' = [key |-> "", err |-> nr.err]
                                    /\ upPc' = "returned"
                                    /\ deferredRemove
                               ELSE /\ upPc' = "do"
                                    /\ UNCHANGED <<upRet, tempFile>>
    /\ UNCHANGED <<upOut, upData, restUp>>

\* Lines 382-386: do has returned; its error is returned, its response goes
\* to parseResponse, which starts reading the body.
UploadAfterDo ==
    /\ upPc = "do"
    /\ callerPc = "returned"
    /\ upOut' = DoOutcome
    /\ IF ret.err # Nil
         THEN /\ upRet' = [key |-> "", err |-> PlainError(ret.err)]
              /\ upPc' = "returned"
              /\ deferredRemove
         ELSE /\ upPc' = "ReadAll"
              /\ UNCHANGED <<upRet, tempFile>>
    /\ UNCHANGED <<upFail, upData, appVars, doVars, restUp>>

\* Lines 170-188 and 386-398: ioutil.ReadAll returns, parseResponse closes
\* the body, the file key is decoded; the deferred os.Remove runs.
UploadReadAll ==
    /\ upPc = "ReadAll"
    /\ LET pr == parseResponse(ret.resp)
           fk == UnmarshalFileKey(pr.body)
       IN  /\ bodyClosed' = pr.closed
           /\ upRet' = IF pr.err # NoError
                         THEN [key |-> "", err |-> pr.err]
                         ELSE IF ~fk.ok
                           THEN [key |-> "", err |-> PlainError(ErrInvalidResponse)]
                           ELSE [key |-> fk.key, err |-> NoError]
    /\ upPc' = "returned"
    /\ deferredRemove
    /\ UNCHANGED <<upFail, upOut, upData, appVars, doButBody, restUp>>

NextUpload ==
    \/ UploadTempFile
    \/ UploadRest
    \/ NextDo
    \/ UploadAfterDo
    \/ UploadReadAll

SpecUpload == InitUpload /\ [][NextUpload]_vars

\* C11: once Upload has created its temporary file, the file is gone when the
\* call is over, by return (with a file key or with any error) or by panic.
C11_TempFileRemoved ==
    upPc \in {"returned", "panicked"} =>
      tempFile = (IF upFail = "TempFile" THEN "none" ELSE "removed")

\* ---------------------------------------------------------------------------
\* The cached token: requests built one after another through one App whose
\* exported fields the caller may change between them.
\* ---------------------------------------------------------------------------

MaxCalls == 3

InitToken ==
    /\ IdleDo /\ IdlePr /\ IdleDl /\ IdleBulk /\ IdleGar /\ IdleUp /\ IdleTok
    /\ IdleRest
    /\ Domain \in Domains
    /\ User \in Users
    /\ Password \in Passwords
    /\ token = ""
    /\ requestsBuilt = 0
    /\ netRequests = 0
    /\ basicAuth = NoBasicAuth

\* The caller assigns the exported fields Domain, User, Password (lines 75-77).
ChangeCredentials ==
    /\ \E d \in Domains, u \in Users, p \in Passwords :
          /\ <<d, u, p>> # <<Domain, User, Password>>
          /\ Domain' = d
          /\ User' = u
          /\ Password' = p
    /\ UNCHANGED <<token, requestsBuilt, netRequests, basicAuth, tokVars, restTok>>

\* SetBasicAuth, lines 89-93.
SetBasicAuth ==
    /\ \E u \in Users, p \in Passwords :
          basicAuth' = [on |-> TRUE, user |-> u, password |-> p]
    /\ basicAuth' # basicAuth
    /\ UNCHANGED <<Domain, User, Password, token, requestsBuilt, netRequests,
                   tokVars, restTok>>

\* One operation builds its request: newRequest, lines 95-115, with the
\* assignment of app.token at line 97.
BuildRequest ==
    LET nr == newRequest(token, User, Password, Domain, basicAuth)
    IN  /\ calls < MaxCalls
        /\ calls' = calls + 1
        /\ token' = nr.token
        /\ lastReq' = nr.req
        /\ lastCreds' = User \o ":" \o Password
        /\ firstCreds' = IF calls = 0 THEN User \o ":" \o Password ELSE firstCreds
        /\ requestsBuilt' = requestsBuilt + (IF nr.req.built THEN 1 ELSE 0)
        /\ UNCHANGED <<Domain, User, Password, netRequests, basicAuth, restTok>>

NextToken ==
    \/ ChangeCredentials
    \/ SetBasicAuth
    \/ BuildRequest

SpecToken == InitToken /\ [][NextToken]_vars

\* C12: in sequential use the cached token is set at most once: it is empty
\* until the first request is built, from then on it is the base64 encoding of
\* User:Password as they were at that first request, no later step changes it
\* whatever happens to User and Password, and every request built carries it.
C12_TokenCachedOnce ==
    /\ [](calls = 0 => token = "")
    /\ [](calls > 0 => (token # "" /\ token = Base64(firstCreds)))
    /\ [](lastReq.built => lastReq.auth = Base64(firstCreds))
    /\ [][token # "" => token' = token]_vars

C12_Witness ==
    /\ calls >= 2
    /\ lastCreds # firstCreds
    /\ Base64(lastCreds) # Base64(firstCreds)
    /\ lastReq.built
    /\ lastReq.auth = Base64(firstCreds)
    /\ token = Base64(firstCreds)

\* ---------------------------------------------------------------------------
\* FieldInfo.UnmarshalJSON
\* ---------------------------------------------------------------------------

\* The wire names of the boolean-like attributes (lines 576-578, 587).
FlagNames == {"noLabel", "required", "unique", "digit"}

\* The wire names of all the attributes the staging struct t has a field
\* for (lines 573-589); any other attribute of the payload is ignored.
AttrNames ==
    FlagNames \cup
    {"label", "code", "type", "maxValue", "minValue", "maxLength",
     "minLength", "defaultValue", "defaultExpression", "options",
     "expression", "protocol", "format"}

\* The Go type of the field of t an attribute is decoded into.
StagingType(a) ==
    IF a = "options" THEN "[]string"
    ELSE IF a \in {"maxValue", "minValue", "maxLength", "minLength",
                   "defaultValue", "defaultExpression"} THEN "interface{}"
    ELSE "string"

\* The field of FieldInfo an attribute fills (lines 550-566 and 594-603).
FieldOf(a) ==
    CASE a = "label" -> "Label"
      [] a = "code" -> "Code"
      [] a = "type" -> "Type"
      [] a = "noLabel" -> "NoLabel"
      [] a = "required" -> "Required"
      [] a = "unique" -> "Unique"
      [] a = "maxValue" -> "MaxValue"
      [] a = "minValue" -> "MinValue"
      [] a = "maxLength" -> "MaxLength"
      [] a = "minLength" -> "MinLength"
      [] a = "defaultValue" -> "Default"
      [] a = "defaultExpression" -> "DefaultTime"
      [] a = "options" -> "Options"
      [] a = "expression" -> "Expression"
      [] a = "digit" -> "Separator"
      [] a = "protocol" -> "Medium"
      [] a = "format" -> "Format"

\* What the service may put in an attribute: nothing, null, a string, a
\* boolean, a number, a list of strings, a list holding a number.
WireValues ==
    {JAbsent, JNull, JString("true"), JString("false"), JString("yes"),
     JBool(TRUE), JNumber, JList(1),
     [kind |-> "list", val |-> "number", n |-> 1]}

\* json.Unmarshal of one attribute into a field of the staging struct t
\* (lines 573-589).  An absent or null attribute leaves the zero value ("",
\* or nil for a slice or an interface).  A string field takes a JSON string,
\* a []string field a list of strings, an interface{} field any JSON value;
\* anything else is a type error.
UnmarshalValue(ty, v) ==
    IF v.kind \in {"absent", "null"}
      THEN [val |-> IF ty = "string" THEN "" ELSE JNull, ok |-> TRUE]
    ELSE IF ty = "string"
      THEN IF v.kind = "string" THEN [val |-> v.val, ok |-> TRUE]
           ELSE [val |-> "", ok |-> FALSE]
    ELSE IF ty = "[]string"
      THEN IF v.kind = "list" /\ v.val = "" THEN [val |-> v, ok |-> TRUE]
           ELSE [val |-> JNull, ok |-> FALSE]
    ELSE [val |-> v, ok |-> TRUE]

\* The zero FieldInfo.
ZeroFieldInfo ==
    [Label |-> "", Code |-> "", Type |-> "",
     NoLabel |-> FALSE, Required |-> FALSE, Unique |-> FALSE,
     MaxValue |-> JNull, MinValue |-> JNull,
     MaxLength |-> JNull, MinLength |-> JNull,
     Default |-> JNull, DefaultTime |-> JNull,
     Options |-> JNull, Expression |-> "",
     Separator |-> FALSE, Medium |-> "", Format |-> ""]

\* UnmarshalJSON that takes every non-empty string but "false" for true.
UnmarshalJSON_Truthy(p, old) ==
    LET t == [a \in AttrNames |->
                UnmarshalValue(StagingType(a),
                               IF p.syntax = "object" THEN p.attrs[a] ELSE JNull)]
        B(a) == t[a].val # "" /\ t[a].val # "false"
    IN  IF \/ p.syntax \notin {"object", "null"}
           \/ \E a \in AttrNames : ~t[a].ok
          THEN [fi |-> old, err |-> TRUE]
          ELSE [fi |-> [Label |-> t["label"].val, Code |-> t["code"].val,
                        Type |-> t["type"].val,
                        NoLabel |-> B("noLabel"),
                        Required |-> B("required"),
                        Unique |-> B("unique"),
                        MaxValue |-> t["maxValue"].val,
                        MinValue |-> t["minValue"].val,
                        MaxLength |-> t["maxLength"].val,
                        MinLength |-> t["minLength"].val,
                        Default |-> t["defaultValue"].val,
                        DefaultTime |-> t["defaultExpression"].val,
                        Options |-> t["options"].val,
                        Expression |-> t["expression"].val,
                        Separator |-> B("digit"),
                        Medium |-> t["protocol"].val,
                        Format |-> t["format"].val],
                err |-> FALSE]

\* UnmarshalJSON, lines 571-605, called on the FieldInfo `old` with the
\* payload p.  json.Unmarshal(data, &t) fails on text that is not JSON, on a
\* JSON value that is neither an object nor null, and on an object with an
\* attribute of a type its field of t does not take; the error is returned
\* with *fi as it was (line 591-593).  JSON null leaves t zero.  Otherwise
\* *fi is overwritten from t, each flag being (t.X == "true").
UnmarshalJSON(p, old) ==
    LET t == [a \in AttrNames |->
                UnmarshalValue(StagingType(a),
                               IF p.syntax = "object" THEN p.attrs[a] ELSE JNull)]
        B(a) == t[a].val = "true"
    IN  IF \/ p.syntax \notin {"object", "null"}
           \/ \E a \in AttrNames : ~t[a].ok
          THEN [fi |-> old, err |-> TRUE]
          ELSE [fi |-> [Label |-> t["label"].val, Code |-> t["code"].val,
                        Type |-> t["type"].val,
                        NoLabel |-> B("noLabel"),
                        Required |-> B("required"),
                        Unique |-> B("unique"),
                        MaxValue |-> t["maxValue"].val,
                        MinValue |-> t["minValue"].val,
                        MaxLength |-> t["maxLength"].val,
                        MinLength |-> t["minLength"].val,
                        Default |-> t["defaultValue"].val,
                        DefaultTime |-> t["defaultExpression"].val,
                        Options |-> t["options"].val,
                        Expression |-> t["expression"].val,
                        Separator |-> B("digit"),
                        Medium |-> t["protocol"].val,
                        Format |-> t["format"].val],
                err |-> FALSE]

\* UnmarshalJSON is called on a FieldInfo that is zero or was filled
\* before, with a payload that is: an object with any wire values but lists
\* in the four flags and nothing else; an object with the flags all "true"
\* or all "false" and any wire value in one other attribute; an object with
\* every attribute present and of the type its field takes; JSON null;
\* another JSON value ("array"); text that is not JSON ("invalid").
InitFieldInfo ==
    /\ IdleDo /\ IdlePr /\ IdleApp /\ IdleDl /\ IdleBulk /\ IdleGar
    /\ IdleTok /\ IdleUp /\ IdleRace /\ IdleGr
    /\ fiPc = "call"
    /\ payload \in
         { [syntax |-> "object",
            attrs |-> [a \in AttrNames |-> IF a \in FlagNames THEN fl[a] ELSE JAbsent]] :
            fl \in [FlagNames -> {v \in WireValues : v.kind # "list"}] }
         \cup
         { [syntax |-> "object",
            attrs |-> [a \in AttrNames |->
                         IF a \in FlagNames THEN JString(s)
                         ELSE IF a = x THEN v ELSE JAbsent]] :
            s \in {"true", "false"}, x \in AttrNames \ FlagNames, v \in WireValues }
         \cup
         { [syntax |-> "object",
            attrs |-> [a \in AttrNames |->
                         IF a \in FlagNames THEN JString("true")
                         ELSE IF StagingType(a) = "string" THEN JString("yes")
                         ELSE IF StagingType(a) = "[]string" THEN JList(1)
                         ELSE JNumber]] }
         \cup
         { [syntax |-> s, attrs |-> [a \in AttrNames |-> JAbsent]] :
            s \in {"null", "array", "invalid"} }
    /\ fi \in {ZeroFieldInfo,
               [ZeroFieldInfo EXCEPT !.Label = "old", !.Required = TRUE]}
    /\ fiErr = FALSE

UnmarshalJSONCall ==
    /\ fiPc = "call"
    /\ fi' = UnmarshalJSON(payload, fi).fi
    /\ fiErr' = UnmarshalJSON(payload, fi).err
    /\ fiPc' = "returned"
    /\ UNCHANGED <<payload, restFi>>

NextFieldInfo == UnmarshalJSONCall

SpecFieldInfo == InitFieldInfo /\ [][NextFieldInfo]_vars

\* The payload is a JSON object whose attribute a is the string "true".
WireTrue(a) == payload.syntax = "object" /\ payload.attrs[a] = JString("true")

\* The attribute a of the payload is absent, null, or a JSON value of the
\* type its field of the staging struct takes.
Accepted(a) ==
    LET v == payload.attrs[a]
    IN  \/ v.kind \in {"absent", "null"}
        \/ StagingType(a) = "string" /\ v.kind = "string"
        \/ StagingType(a) = "[]string" /\ v = JList(v.n)
        \/ StagingType(a) = "interface{}"

NumTasks == 2

Tasks == 1..NumTasks

InitRace ==
    /\ IdleDo /\ IdlePr /\ IdleDl /\ IdleBulk /\ IdleGar /\ IdleTok /\ IdleUp
    /\ IdleFi /\ IdleGr
    /\ Domain \in Domains
    /\ User \in Users
    /\ Password \in Passwords
    /\ token = ""
    /\ requestsBuilt = 0
    /\ netRequests = 0
    /\ basicAuth = NoBasicAuth
    /\ taskPc = [t \in Tasks |-> "check"]
    /\ sawEmpty = [t \in Tasks |-> FALSE]
    /\ taskAuth = [t \in Tasks |-> ""]
    /\ tokenWrites = 0

\* Line 96: the task reads app.token and compares its length with 0.
raceCheck(t) ==
    /\ taskPc[t] = "check"
    /\ sawEmpty' = [sawEmpty EXCEPT ![t] = (token = "")]
    /\ taskPc' = [taskPc EXCEPT ![t] = IF token = "" THEN "set" ELSE "build"]
    /\ UNCHANGED <<appVars, taskAuth, tokenWrites, restRace>>

\* raceSet that looks at the token again, in one step with the write.
raceSet_Guarded(t) ==
    /\ taskPc[t] = "set"
    /\ token' = newRequest(token, User, Password, Domain, basicAuth).token
    /\ tokenWrites' = tokenWrites + (IF token = "" THEN 1 ELSE 0)
    /\ taskPc' = [taskPc EXCEPT ![t] = "build"]
    /\ UNCHANGED <<Domain, User, Password, basicAuth, requestsBuilt, netRequests,
                   sawEmpty, taskAuth, restRace>>

\* Lines 97-98: the task that found the token empty computes it and assigns
\* it, whatever the token has become meanwhile.
raceSet(t) ==
    /\ taskPc[t] = "set"
    /\ token' = newRequest("", User, Password, Domain, basicAuth).token
    /\ tokenWrites' = tokenWrites + 1
    /\ taskPc' = [taskPc EXCEPT ![t] = "build"]
    /\ UNCHANGED <<Domain, User, Password, basicAuth, requestsBuilt, netRequests,
                   sawEmpty, taskAuth, restRace>>

\* Lines 100-114: the request is built and carries app.token as read now.
raceBuild(t) ==
    LET nr == newRequest(token, User, Password, Domain, basicAuth)
    IN  /\ taskPc[t] = "build"
        /\ taskAuth' = [taskAuth EXCEPT ![t] = nr.req.auth]
        /\ requestsBuilt' = requestsBuilt + (IF nr.req.built THEN 1 ELSE 0)
        /\ taskPc' = [taskPc EXCEPT ![t] = "done"]
        /\ UNCHANGED <<Domain, User, Password, basicAuth, token, netRequests,
                       sawEmpty, tokenWrites, restRace>>

NextRace ==
    \E t \in Tasks :
       \/ raceCheck(t)
       \/ raceSet(t)
       \/ raceBuild(t)

SpecRace == InitRace /\ [][NextRace]_vars

\* The tasks that have written the token.
Writers == { t \in Tasks : sawEmpty[t] /\ taskPc[t] \in {"build", "done"} }

\* C19: the lazy initialisation is an unguarded check-then-set: a task that
\* observed the empty token goes on to compute and write it whatever the
\* other tasks did in between, so the number of writes is the number of
\* tasks that observed the empty token, which nothing keeps at one.
C19_UnguardedCheckThenSet ==
    /\ \A t \in Tasks : taskPc[t] = "set" => sawEmpty[t]
    /\ tokenWrites = Cardinality(Writers)
    /\ tokenWrites > 0 => token = Base64(User \o ":" \o Password)
    /\ (\A t \in Tasks : taskPc[t] = "done") => tokenWrites >= 1

C19_Witness ==
    /\ \A t \in Tasks : taskPc[t] = "done"
    /\ Cardinality({ t \in Tasks : sawEmpty[t] }) >= 2
    /\ tokenWrites >= 2

\* ---------------------------------------------------------------------------
\* GetRecord, step by step: newRequest, do (the actions of App.do above),
\* then parseResponse, whose ioutil.ReadAll waits for the whole body.
\* ---------------------------------------------------------------------------

\* DecodeRecord of the record codec: the record of a JSON object, an error
\* for any other body.
DecodeRecord(body) ==
    IF body.syntax = "object" THEN [data |-> [kind |-> "record", n |-> 1], err |-> FALSE]
                              ELSE [data |-> NoData, err |-> TRUE]

InitGetRecord ==
    /\ IdlePr /\ IdleDl /\ IdleBulk /\ IdleGar /\ IdleTok /\ IdleUp
    /\ IdleFi /\ IdleRace
    /\ Domain \in Domains
    /\ User = "user"
    /\ Password = "pass"
    /\ token = ""
    /\ requestsBuilt = 0
    /\ netRequests = 0
    /\ basicAuth = NoBasicAuth
    /\ Client \in Clients
    /\ Timeout \in Timeouts
    /\ callerPc = "idle"
    /\ netPc = "unborn"
    /\ netRes = NoResult
    /\ done = <<>>
    /\ timer = "off"
    /\ drainPc = "unborn"
    /\ cancelCalled = FALSE
    /\ bodyClosed = FALSE
    /\ ret = NoResult
    /\ resultFirst = FALSE
    /\ grPc = "call"
    /\ grOut = NoResponse
    /\ grRet = NoReturn

\* Lines 197-202: the request is built and handed to do.
GetRecordStart ==
    LET nr == newRequest(token, User, Password, Domain, basicAuth)
    IN  /\ grPc = "call"
        /\ token' = nr.token
        /\ IF nr.err # NoError
             THEN /\ grRet' = [data |-> NoData, err |-> nr.err]
                  /\ grPc' = "returned"
                  /\ UNCHANGED <<requestsBuilt, netRequests, callerPc>>
             ELSE /\ requestsBuilt' = requestsBuilt + 1
                  /\ netRequests' = netRequests + 1
                  /\ callerPc' = "call"
                  /\ grPc' = "do"
                  /\ UNCHANGED grRet
        /\ UNCHANGED <<Domain, User, Password, basicAuth, grOut,
                       Client, Timeout, netPc, netRes, done, timer, drainPc,
                       cancelCalled, bodyClosed, ret, resultFirst, restGr>>

\* GetRecordAfterDo that calls do once more after an error of do.
GetRecordAfterDo_Retry ==
    /\ grPc = "do"
    /\ callerPc = "returned"
    /\ IF ret.err # Nil
         THEN IF netRequests < 2
                THEN /\ callerPc' = "call"
                     /\ netRequests' = netRequests + 1
                     /\ UNCHANGED <<grRet, grPc>>
                ELSE /\ grRet' = [data |-> NoData, err |-> PlainError(ret.err)]
                     /\ grPc' = "returned"
                     /\ UNCHANGED <<callerPc, netRequests>>
         ELSE /\ grPc' = "ReadAll"
              /\ UNCHANGED <<grRet, callerPc, netRequests>>
    /\ UNCHANGED <<grOut, Domain, User, Password, token, requestsBuilt, basicAuth,
                   doButCaller, restGr>>

\* Lines 202-206: do has returned; its error is returned, its response goes
\* to parseResponse, which starts reading the body (line 170).
GetRecordAfterDo ==
    /\ grPc = "do"
    /\ callerPc = "returned"
    /\ IF ret.err # Nil
         THEN /\ grRet' = [data |-> NoData, err |-> PlainError(ret.err)]
              /\ grPc' = "returned"
         ELSE /\ grPc' = "ReadAll"
              /\ UNCHANGED grRet
    /\ UNCHANGED <<grOut, appVars, doVars, restGr>>

\* Lines 170-188 and 206-214: the server ends the body (or the connection
\* breaks), ioutil.ReadAll returns, parseResponse closes the body, and
\* GetRecord classifies and decodes.
ReadAllReturns ==
    /\ grPc = "ReadAll"
    /\ LET pr == parseResponse(ret.resp)
       IN  /\ bodyClosed' = pr.closed
           /\ grOut' = ret.resp
           /\ grRet' = IF pr.err # NoError
                         THEN [data |-> NoData, err |-> pr.err]
                         ELSE IF DecodeRecord(pr.body).err
                           THEN [data |-> NoData,
                                 err |-> PlainError(ErrInvalidResponse)]
                           ELSE [data |-> DecodeRecord(pr.body).data,
                                 err |-> NoError]
    /\ grPc' = "returned"
    /\ UNCHANGED <<appVars, doButBody, restGr>>

NextGetRecord ==
    \/ GetRecordStart
    \/ NextDo
    \/ GetRecordAfterDo
    \/ ReadAllReturns

SpecGetRecord == InitGetRecord /\ [][NextGetRecord]_vars

\* A step GetRecord's own goroutine can take without the server.
CallerCanStep ==
    \/ ENABLED GetRecordStart
    \/ ENABLED doCall
    \/ ENABLED selectDone
    \/ ENABLED selectTimeout
    \/ ENABLED GetRecordAfterDo

\* C18: the deadline covers the whole call: once the timer of the call has
\* fired, GetRecord has returned or can go on to its return by its own
\* steps, never waiting for the server to finish the body.
C18_DeadlineCoversCall ==
    (timer = "fired" /\ grPc \in {"call", "do", "ReadAll"}) => CallerCanStep

\* ---------------------------------------------------------------------------
\* GetRecords, AddRecord, UpdateRecord, Fields: one request each.
\* ---------------------------------------------------------------------------

\* One field description of such a list: an object with its code and the
\* boolean-like attributes.
FieldPayload(flags) ==
    [syntax |-> "object",
     attrs |-> [a \in AttrNames |->
                  IF a \in FlagNames
                    THEN IF flags = "bool" /\ a = "required"
                           THEN JBool(TRUE) ELSE JString("true")
                  ELSE IF a = "code" THEN JString("f1") ELSE JAbsent]]

\* json.Unmarshal(body, &t) with t.Id string, lines 421-427; the data
\* returned is the id, n telling the ids "" (0) and non-empty (1) apart.
UnmarshalId(body) ==
    IF body.syntax # "object"
      THEN [data |-> NoData, ok |-> FALSE]
      ELSE IF body.id.kind \in {"absent", "null"}
        THEN [data |-> [kind |-> "id", n |-> 0], ok |-> TRUE]
        ELSE IF body.id.kind = "string"
          THEN [data |-> [kind |-> "id", n |-> 1], ok |-> TRUE]
          ELSE [data |-> NoData, ok |-> FALSE]

\* json.Unmarshal(body, &t) with t.Properties []FieldInfo, lines 627-633:
\* each element goes through FieldInfo.UnmarshalJSON; and the map of lines
\* 635-640, keyed by the field code: descriptions with one code make one
\* entry.
UnmarshalProperties(body) ==
    IF body.syntax # "object"
      THEN [data |-> NoData, ok |-> FALSE]
      ELSE IF body.properties.kind \in {"absent", "null"}
        THEN [data |-> [kind |-> "fields", n |-> 0], ok |-> TRUE]
        ELSE IF body.properties.kind # "fields"
          THEN [data |-> NoData, ok |-> FALSE]
          ELSE IF body.properties.n > 0
                  /\ UnmarshalJSON(FieldPayload(body.properties.val), ZeroFieldInfo).err
            THEN [data |-> NoData, ok |-> FALSE]
            ELSE [data |-> [kind |-> "fields",
                            n |-> IF body.properties.val = "samecode"
                                    THEN Min(body.properties.n, 1)
                                    ELSE body.properties.n],
                  ok |-> TRUE]

\* What the operation makes of a 200 body: GetRecords lines 244-248,
\* AddRecord lines 421-430, UpdateRecord line 486-487, Fields lines 627-640.
Decode(op, body) ==
    CASE op = "GetRecords" ->
           [data |-> [kind |-> "records", n |-> Len(DecodeRecords(body).recs)],
            ok |-> ~DecodeRecords(body).err]
      [] op = "AddRecord" -> UnmarshalId(body)
      [] op = "UpdateRecord" -> [data |-> NoData, ok |-> TRUE]
      [] op = "Fields" -> UnmarshalProperties(body)

InitSimple ==
    /\ ReadyDo /\ IdlePr /\ IdleDl /\ IdleGar /\ IdleTok /\ IdleUp /\ IdleRest
    /\ Domain \in Domains
    /\ User = "user"
    /\ Password = "pass"
    /\ token = ""
    /\ requestsBuilt = 0
    /\ netRequests = 0
    /\ basicAuth = NoBasicAuth
    /\ opName \in SimpleOps
    /\ nItems = 1
    /\ opPc = "call"
    /\ opRet = NoReturn
    /\ opOut = NoOutcome

\* GetRecords (lines 226-236), AddRecord (404-415), UpdateRecord (471-482),
\* Fields (610-618): the request is built and handed to do.
SimpleCall ==
    /\ opName \in SimpleOps
    /\ opPc = "call"
    /\ LET nr == newRequest(token, User, Password, Domain, basicAuth)
       IN  /\ Hand(nr)
           /\ opRet' = [data |-> NoData, err |-> nr.err]
           /\ opPc' = IF nr.err # NoError THEN "returned" ELSE "do"
    /\ UNCHANGED <<opName, nItems, opOut, restBulk>>

\* do has returned (for Fields lines 618-622): its error is returned, its
\* response goes to parseResponse, which starts reading the body.
SimpleAfterDo ==
    /\ opName \in SimpleOps
    /\ opPc = "do"
    /\ callerPc = "returned"
    /\ opOut' = DoOutcome
    /\ IF ret.err # Nil
         THEN /\ opRet' = [data |-> NoData, err |-> PlainError(ret.err)]
              /\ opPc' = "returned"
         ELSE /\ opPc' = "ReadAll"
              /\ UNCHANGED opRet
    /\ UNCHANGED <<opName, nItems, appVars, doVars, restBulk>>

\* ioutil.ReadAll returns, parseResponse closes the body and classifies the
\* response (lines 170-188), and the operation decodes the body.
SimpleReadAll ==
    /\ opName \in SimpleOps
    /\ opPc = "ReadAll"
    /\ LET pr == parseResponse(ret.resp)
           d == Decode(opName, pr.body)
       IN  /\ bodyClosed' = pr.closed
           /\ opRet' = IF pr.err # NoError
                         THEN [data |-> NoData, err |-> pr.err]
                         ELSE IF ~d.ok
                           THEN [data |-> NoData,
                                 err |-> PlainError(ErrInvalidResponse)]
                           ELSE [data |-> d.data, err |-> NoError]
    /\ opPc' = "returned"
    /\ UNCHANGED <<opName, nItems, opOut, appVars, doButBody, restBulk>>

\* ---------------------------------------------------------------------------
\* Every public operation, one invocation of one of them at a time.
\* ---------------------------------------------------------------------------

InitOps ==
    \/ InitBulk
    \/ InitSimple
    \/ InitGetRecord
    \/ InitAll
    \/ InitDownload
    \/ InitUpload

NextOps ==
    \/ AddRecords
    \/ UpdateRecords
    \/ DeleteRecords
    \/ BulkAfterDo
    \/ BulkReadAll
    \/ SimpleCall
    \/ SimpleAfterDo
    \/ SimpleReadAll
    \/ GetRecordStart
    \/ GetRecordAfterDo
    \/ ReadAllReturns
    \/ GetAllRecords
    \/ GetAllRecordsQuery
    \/ GetAllRecordsAfterDo
    \/ GetAllRecordsPage
    \/ Download
    \/ DownloadAfterDo
    \/ DownloadReadAll
    \/ relayRead
    \/ relayWritten
    \/ relayCloseBody
    \/ relayClosePipe
    \/ consumerRead
    \/ consumerStop
    \/ UploadTempFile
    \/ UploadRest
    \/ UploadAfterDo
    \/ UploadReadAll
    \/ NextDo

SpecOps == InitOps /\ [][NextOps]_vars

\* An error has reached the invocation: do returned one to GetRecord, a
\* page fetch of GetAllRecords failed, or the operation returned one.
FailureObserved ==
    \/ callerPc = "returned" /\ ret.err # Nil
    \/ garPc # "idle" /\ PageFailed
    \/ opRet.err # NoError
    \/ grRet.err # NoError
    \/ garRet.err # NoError
    \/ dlRet.err # NoError
    \/ upRet.err # NoError

\* C13: no operation retries.  An invocation of an operation other than
\* GetAllRecords hands at most one request to do, whatever the outcome;
\* GetAllRecords hands one request per page, each with its own offset, so at
\* most one more than the pages it has obtained; every request handed to do
\* is counted, and do starts Client.Do only when it is entered, which the
\* timeout and the results of Client.Do never make happen again; and once a
\* failure has been observed the invocation issues no request.
C13_NoRetry ==
    /\ [](garPc = "idle" => netRequests <= 1)
    /\ [](garPc # "idle" =>
            /\ netRequests = Len(queries)
            /\ netRequests <= Len(pages) + 1
            /\ \A i, j \in 1..Len(queries) : i # j => queries[i] # queries[j])
    /\ [][netRequests' <= netRequests + 1]_vars
    /\ [][(callerPc' = "call" /\ callerPc # "call") =>
            netRequests' = netRequests + 1]_vars
    /\ [][(netPc' = "Do" /\ netPc # "Do") =>
            (callerPc = "call" /\ callerPc' = "select")]_vars
    /\ [][FailureObserved => netRequests' = netRequests]_vars

\* GetAllRecords obtained one page, its second request failed in do, and it
\* returned that error without another request.
C13_Witness ==
    /\ garPc = "returned"
    /\ garRet.err = PlainError("net error")
    /\ Len(pages) = 1
    /\ netRequests = 2

\* The invocation that has returned, as its caller and the service saw it:
\* the operation, whether the batch was over the limit, whether a local
\* step of Upload failed, what do gave, the error and whether data came back.
Returned ==
    \/ opPc = "returned"
    \/ grPc = "returned"
    \/ garPc = "returned"
    \/ dlPc = "returned"
    \/ upPc = "returned"

Invocation ==
    IF opPc = "returned"
      THEN [op |-> opName, over |-> opName \in BulkOps /\ nItems > BatchLimit,
            local |-> FALSE, out |-> opOut, err |-> opRet.err,
            data |-> opRet.data # NoData]
    ELSE IF grPc = "returned"
      THEN [op |-> "GetRecord", over |-> FALSE, local |-> FALSE,
            out |-> IF callerPc = "returned" /\ ret.err # Nil
                      THEN [err |-> PlainError(ret.err), resp |-> NoResponse]
                      ELSE [err |-> NoError, resp |-> grOut],
            err |-> grRet.err, data |-> grRet.data # NoData]
    ELSE IF garPc = "returned"
      THEN [op |-> "GetAllRecords", over |-> FALSE, local |-> FALSE,
            out |-> lastOut, err |-> garRet.err, data |-> ~garRet.isNil]
    ELSE IF dlPc = "returned"
      THEN [op |-> "Download", over |-> FALSE, local |-> FALSE,
            out |-> [err |-> IF dlResp = NoResponse THEN dlRet.err ELSE NoError,
                     resp |-> dlResp],
            err |-> dlRet.err, data |-> dlRet.data # Nil]
    ELSE [op |-> "Upload", over |-> FALSE, local |-> upFail # "none",
          out |-> upOut, err |-> upRet.err, data |-> upRet.key # ""]

\* Whether a 200 body decodes into the shape the operation expects; the
\* operations that do not decode the body take any.
DecodesFor(op, body) ==
    CASE op = "GetRecord" -> ~DecodeRecord(body).err
      [] op \in {"GetRecords", "GetAllRecords"} -> ~DecodeRecords(body).err
      [] op = "AddRecord" -> UnmarshalId(body).ok
      [] op = "AddRecords" -> UnmarshalIds(body).ok
      [] op = "Upload" -> UnmarshalFileKey(body).ok
      [] op = "Fields" -> UnmarshalProperties(body).ok
      [] OTHER -> TRUE

\* The class of an error value.
ClassOf(e) ==
    IF e = NoError THEN "success"
    ELSE IF e = PlainError(ErrTooMany) THEN "ErrTooMany"
    ELSE IF e = PlainError("invalid URL") THEN "construction"
    ELSE IF e \in { PlainError(l \o " error") : l \in LocalFailures \cup {"TempFile"} }
      THEN "construction"
    ELSE IF e \in DoErrors THEN "transport"
    ELSE IF e.type = "AppError" THEN "AppError"
    ELSE IF e = PlainError(ErrInvalidResponse) THEN "ErrInvalidResponse"
    ELSE IF e = ReadError THEN "read error"
    ELSE "other"

\* The class the stated order gives an invocation; a failed local step of
\* Upload counts as a failure to construct the request.
StatedClass(c) ==
    IF c.over THEN "ErrTooMany"
    ELSE IF c.local \/ ~ValidHost(Domain) THEN "construction"
    ELSE IF c.out.err # NoError THEN "transport"
    ELSE IF c.out.resp.StatusCode # 200 THEN "AppError"
    ELSE IF ~DecodesFor(c.op, c.out.resp.Body) THEN "ErrInvalidResponse"
    ELSE "success"

\* C14: an invocation does not end in a panic, and one that returns ends in
\* the class the order ErrTooMany, request construction, transport error or
\* ErrTimeout, AppError (non-200), ErrInvalidResponse (200, undecodable),
\* success gives; ErrInvalidResponse never comes with a non-200 response and
\* no data comes with an error.
C14_Original ==
    /\ upPc # "panicked"
    /\ Returned =>
         /\ ClassOf(Invocation.err) = StatedClass(Invocation)
         /\ ClassOf(Invocation.err) = "ErrInvalidResponse" =>
               Invocation.out.resp.StatusCode = 200
         /\ Invocation.err # NoError => ~Invocation.data

====
